---- MODULE Spec2Model ----
(***************************************************************************)
(* Model of the PythiaTradingBot backtest pipeline and risk manager:        *)
(*   - BacktestEngine.run_backtest / calculate_metrics                     *)
(*     (src/backtesting/backtest_engine.py)                                *)
(*   - StatisticalPatternStrategy.generate_signals and its helpers         *)
(*     (src/strategies/statistical_pattern_strategy.py)                    *)
(*   - RiskManager (src/risk_management/risk_manager.py)                   *)
(*                                                                         *)
(* Floating point numbers are modelled as extended rationals <<n, d>> in   *)
(* lowest terms with d >= 0: d > 0 is the finite value n/d, <<1,0>> is     *)
(* +inf, <<-1,0>> is -inf and <<0,0>> is NaN.  The arithmetic follows the  *)
(* IEEE rules numpy applies (x/0 = +-inf, 0/0 = NaN, NaN compares false    *)
(* with everything); rounding error and signed zeros are not modelled.     *)
(***************************************************************************)
EXTENDS Integers, Sequences, FiniteSets, TLC

VARIABLES
    pc,             \* position of run_backtest: "fetched", "simulating", "done"
    closes,         \* data['close'] when the bars are given, bar k at index k + 1
    volumes,        \* data['volume'], same indexing
    signals,        \* the series returned by generate_signals
    i,              \* loop variable of the simulation loop (a bar number)
    current_signal, \* signals.iloc[i] of the bar the loop read last
    current_close,  \* data.iloc[i]['close'] of the bar the loop read last
    position,       \* 0 (FLAT), 1 (LONG), -1 (SHORT)
    entry_price,    \* price at which the open position was entered, else 0.0
    trades,         \* the trade ledger, a sequence of TradeResult
    entry_bar,      \* history: bar at which the open position was entered
    entry_bars,     \* history: entry bar of every trade of the ledger
    result,         \* the BacktestResult, NoResult before the run is over
    params,         \* constructor parameters of the strategy instance
    current_state,  \* self.current_state of the strategy instance
    regime,         \* what identify_market_regime returned to generate_signals
    columns,        \* data.columns: the columns of the bars given
    anomaly_series, \* what detect_anomalies returned to generate_signals
    position_series,\* what calculate_position_sizes returned to generate_signals
    calls,          \* history: generate_signals calls made on the instance
    metrics,        \* RiskManager.metrics
    max_drawdown_limit, \* RiskManager.max_drawdown_limit
    last_op,        \* the RiskManager method that ran last
    last_value,     \* history: <<current_value>> of the last update_metrics
                    \* since the construction or the last reset, else <<>>
    updates,        \* history: update_metrics calls made on the manager
    limits_ok,      \* what check_risk_limits returned last
    risk_metrics,   \* what get_metrics returned last
    indicator,      \* the technical indicator that was called last
    indicator_args, \* its arguments
    indicator_value,\* what it returned
    parameters,     \* self.parameters of the live strategy
    historical_data,\* self.historical_data of the live strategy
    metadata,       \* self.state.metadata of the live strategy
    signal,         \* the Signal generate_signal returned, NoSignal once
                    \* another method of the live strategy has run
    request,        \* the request a configuration handler served last
    response,       \* the status code of its response, 0 before any
    backtest_parameters \* <<the parameters run_backtest built a strategy
                    \* from last>>, <<>> before any

\* the variables generate_signals leaves its intermediate results in
stratVars == <<columns, anomaly_series, position_series, calls>>

\* the variables of the RiskManager instance and of its callers
riskVars == <<metrics, max_drawdown_limit, last_op, last_value, updates,
              limits_ok, risk_metrics>>

\* the variables of a call to a technical indicator
indVars == <<indicator, indicator_args, indicator_value>>

\* the variables of the live strategy and of its caller
barVars == <<parameters, historical_data, metadata, signal>>

\* the variables of the configuration handlers
apiVars == <<request, response, backtest_parameters>>

vars == <<pc, closes, volumes, signals, i, current_signal, current_close,
          position, entry_price, trades, entry_bar, entry_bars, result,
          params, current_state, regime, stratVars, riskVars, indVars,
          barVars, apiVars>>

----------------------------------------------------------------------------
(* Bounds of the model *)

\* number of bars of a simulated series (bar 0 .. MaxBars - 1)
MaxBars == 6

\* number of bars of a fetched series whose closes and volumes are enumerated
MaxFetched == 4

\* number of bars of the fetched series of identical bars
FlatBars == 250

\* number of bars of the fetched series that is long enough for the volume
\* and volatility filters of generate_signals
FilterBars == 21

\* number of bars of the series a caller hands to generate_signals directly
MaxCallBars == 3

\* number of generate_signals calls made on one strategy instance
MaxCalls == 2

\* number of trade returns a RiskManager in use has recorded when it is
\* taken up
WarmReturns == 18

\* number of update_metrics calls made on a RiskManager from then on
MaxUpdates == 3

\* number of values of an array a technical indicator is given
MaxSamples == 3

\* largest window or period a technical indicator is given
MaxWindow == 3

\* number of returns of the longest array detect_regime is given
MaxReturns == 101

\* number of bars the history of the live strategy grows to while it is
\* shorter than the lookback period
MaxHistory == 4

----------------------------------------------------------------------------
(* Floating point arithmetic *)

Abs(x) == IF x < 0 THEN -x ELSE x

Sgn(x) == IF x > 0 THEN 1 ELSE IF x < 0 THEN -1 ELSE 0

RECURSIVE Gcd(_, _)
Gcd(a, b) == IF b = 0 THEN a ELSE Gcd(b, a % b)

\* the float n/d, in lowest terms; d >= 0
Norm(n, d) ==
    IF d = 0 THEN <<Sgn(n), 0>>
    ELSE LET g == Gcd(Abs(n), d) IN <<n \div g, d \div g>>

F(n) == <<n, 1>>

Zero == <<0, 1>>
One == <<1, 1>>
NaN == <<0, 0>>
Inf == <<1, 0>>

IsNaN(a) == a[2] = 0 /\ a[1] = 0
IsFinite(a) == a[2] > 0

FNeg(a) == <<-a[1], a[2]>>

FAbs(a) == <<Abs(a[1]), a[2]>>

FAdd(a, b) ==
    IF IsNaN(a) \/ IsNaN(b) THEN NaN
    ELSE IF a[2] = 0 /\ b[2] = 0 THEN (IF a[1] = b[1] THEN a ELSE NaN)
    ELSE IF a[2] = 0 THEN a
    ELSE IF b[2] = 0 THEN b
    ELSE LET g == Gcd(a[2], b[2])
         IN Norm(a[1] * (b[2] \div g) + b[1] * (a[2] \div g),
                 a[2] * (b[2] \div g))

FSub(a, b) == FAdd(a, FNeg(b))

FMul(a, b) ==
    IF IsNaN(a) \/ IsNaN(b) THEN NaN
    ELSE IF a[2] = 0 \/ b[2] = 0 THEN <<Sgn(a[1]) * Sgn(b[1]), 0>>
    ELSE LET g1 == Gcd(Abs(a[1]), b[2])
             g2 == Gcd(Abs(b[1]), a[2])
         IN Norm((a[1] \div g1) * (b[1] \div g2),
                 (a[2] \div g2) * (b[2] \div g1))

\* 1/b: 1/0 = +inf, 1/inf = 0
FInv(b) ==
    IF b[1] < 0 THEN <<-b[2], -b[1]>> ELSE <<b[2], b[1]>>

FDiv(a, b) ==
    IF IsNaN(a) \/ IsNaN(b) THEN NaN
    ELSE IF a[2] = 0 /\ b[2] = 0 THEN NaN
    ELSE IF a[2] = 0 THEN <<a[1] * (IF b[1] < 0 THEN -1 ELSE 1), 0>>
    ELSE IF b[1] = 0 THEN <<Sgn(a[1]), 0>>
    ELSE FMul(a, FInv(b))

\* -1 for -inf, 0 for a finite number, 1 for +inf
Rank(a) == IF a[2] = 0 THEN a[1] ELSE 0

FLt(a, b) ==
    /\ ~IsNaN(a)
    /\ ~IsNaN(b)
    /\ IF a[2] = 0 \/ b[2] = 0 THEN Rank(a) < Rank(b)
       ELSE LET g == Gcd(a[2], b[2])
            IN a[1] * (b[2] \div g) < b[1] * (a[2] \div g)

FGt(a, b) == FLt(b, a)

FEq(a, b) == ~IsNaN(a) /\ ~IsNaN(b) /\ a = b

FNe(a, b) == ~FEq(a, b)

FLe(a, b) == FLt(a, b) \/ FEq(a, b)

FGe(a, b) == FLe(b, a)

----------------------------------------------------------------------------
(* Series helpers (pandas / python builtins) *)

\* python's sum() over a list of floats, left to right, starting from 0
RECURSIVE PySum(_)
PySum(xs) ==
    IF xs = <<>> THEN Zero
    ELSE FAdd(PySum(SubSeq(xs, 1, Len(xs) - 1)), xs[Len(xs)])

\* Series.cumprod()
RECURSIVE CumProd(_)
CumProd(xs) ==
    IF xs = <<>> THEN <<>>
    ELSE IF Len(xs) = 1 THEN xs
    ELSE LET front == CumProd(SubSeq(xs, 1, Len(xs) - 1))
         IN Append(front, FMul(front[Len(front)], xs[Len(xs)]))

\* the larger of two floats where NaN is skipped (pandas skipna)
NanMax(a, b) == IF IsNaN(a) THEN b ELSE IF IsNaN(b) THEN a
                ELSE IF FLt(a, b) THEN b ELSE a

NanMin(a, b) == IF IsNaN(a) THEN b ELSE IF IsNaN(b) THEN a
                ELSE IF FLt(b, a) THEN b ELSE a

\* Series.expanding().max()
RECURSIVE ExpandingMax(_)
ExpandingMax(xs) ==
    IF xs = <<>> THEN <<>>
    ELSE IF Len(xs) = 1 THEN xs
    ELSE LET front == ExpandingMax(SubSeq(xs, 1, Len(xs) - 1))
         IN Append(front, NanMax(front[Len(front)], xs[Len(xs)]))

\* Series.min(), NaN entries skipped, NaN when nothing is left
RECURSIVE SeriesMin(_)
SeriesMin(xs) ==
    IF xs = <<>> THEN NaN
    ELSE NanMin(SeriesMin(SubSeq(xs, 1, Len(xs) - 1)), xs[Len(xs)])

\* Series.mean()
Mean(xs) == FDiv(PySum(xs), F(Len(xs)))

\* Series.var(), sample variance (ddof = 1); Series.std() is its square root
SampleVar(xs) ==
    LET m == Mean(xs)
        sq == [k \in 1..Len(xs) |-> FMul(FSub(xs[k], m), FSub(xs[k], m))]
    IN FDiv(PySum(sq), F(Len(xs) - 1))

\* A real v is carried as sign(v) * v^2 wherever it is a square root of a
\* float (a standard deviation, a Sharpe ratio): the map is increasing and
\* one to one, so order, sign, zero, infinity and NaN are those of v.
SignedSquare(a) == FMul(a, FAbs(a))

----------------------------------------------------------------------------
(* BacktestEngine.calculate_metrics *)

ReturnsOf(ts) == [k \in 1..Len(ts) |-> ts[k].pnl]

\* np.sqrt(252) * (mean / std) if len(returns) > 1 else 0, as a signed square
SharpeRatio(returns) ==
    IF Len(returns) > 1
    THEN FMul(F(252), FDiv(SignedSquare(Mean(returns)), SampleVar(returns)))
    ELSE Zero

MaxDrawdown(returns) ==
    LET cumulative_returns ==
            CumProd([k \in 1..Len(returns) |-> FAdd(One, returns[k])])
        rolling_max == ExpandingMax(cumulative_returns)
        drawdowns == [k \in 1..Len(returns) |->
                         FSub(FDiv(cumulative_returns[k], rolling_max[k]), One)]
    IN SeriesMin(drawdowns)

WinRate(ts) ==
    LET winning_trades == Cardinality({k \in 1..Len(ts) : FGt(ts[k].pnl, Zero)})
    IN FDiv(F(winning_trades), F(Len(ts)))

ProfitFactor(returns) ==
    LET profits == [k \in 1..Len(returns) |->
                       IF FGt(returns[k], Zero) THEN returns[k] ELSE Zero]
        losses == [k \in 1..Len(returns) |->
                      IF FLt(returns[k], Zero) THEN returns[k] ELSE Zero]
        gross_profits == PySum(profits)
        gross_losses == FAbs(PySum(losses))
    IN IF FNe(gross_losses, Zero) THEN FDiv(gross_profits, gross_losses)
       ELSE Inf

EmptyMetrics ==
    [total_return |-> Zero, sharpe_ratio |-> Zero, max_drawdown |-> Zero,
     win_rate |-> Zero, profit_factor |-> Zero]

calculate_metrics(ts) ==
    IF ts = <<>> THEN EmptyMetrics
    ELSE [total_return |-> PySum(ReturnsOf(ts)),
          sharpe_ratio |-> SharpeRatio(ReturnsOf(ts)),
          max_drawdown |-> MaxDrawdown(ReturnsOf(ts)),
          win_rate |-> WinRate(ts),
          profit_factor |-> ProfitFactor(ReturnsOf(ts))]

----------------------------------------------------------------------------
(* BacktestEngine.run_backtest: the trade simulation loop *)

NoResult == [status |-> "none"]

\* mutant: a signal that is not 0 enters whatever the position
EntryCondition_AnyPosition(pos, sig) ==
    FNe(sig, Zero)

\* position == 0 and current_signal != 0
EntryCondition(pos, sig) ==
    pos = 0 /\ FNe(sig, Zero)

\* 1 if current_signal > 0 else -1
EntryDirection(sig) ==
    IF FGt(sig, Zero) THEN 1 ELSE -1

\* mutant: a position is closed on a neutral signal only, a flip is ignored
ExitCondition_NeutralOnly(pos, sig) ==
    pos # 0 /\ FEq(sig, Zero)

\* position != 0 and (current_signal == 0 or current_signal == -position)
ExitCondition(pos, sig) ==
    pos # 0 /\ (FEq(sig, Zero) \/ FEq(sig, F(-pos)))

\* mutant: the direction of the position is dropped from the pnl
Pnl_Unsigned(pos, entry, exit_price) ==
    FDiv(FSub(exit_price, entry), entry)

\* position * (exit_price - entry_price) / entry_price
Pnl(pos, entry, exit_price) ==
    FDiv(FMul(F(pos), FSub(exit_price, entry)), entry)

TradeResult(bar, pos, entry, exit_price) ==
    [timestamp |-> bar,
     type |-> IF pos > 0 THEN "LONG" ELSE "SHORT",
     entry_price |-> entry,
     exit_price |-> exit_price,
     pnl |-> Pnl(pos, entry, exit_price),
     status |-> "CLOSED"]

\* mutant: a flip reopens in the flipped direction on the same bar
PositionAfterExit_Reopen(pos, sig) ==
    IF FEq(sig, F(-pos)) THEN -pos ELSE 0

\* position after a bar on which the exit branch ran
PositionAfterExit(pos, sig) == 0

\* one iteration of "for i in range(1, len(data))": bar i is read and acted on
SimulateBar(sig, close) ==
    /\ current_signal' = sig
    /\ current_close' = close
    /\ i' = i + 1
    /\ IF EntryCondition(position, sig)
       THEN /\ position' = EntryDirection(sig)
            /\ entry_price' = close
            /\ entry_bar' = i
            /\ UNCHANGED <<trades, entry_bars>>
       ELSE IF ExitCondition(position, sig)
       THEN /\ trades' = Append(trades,
                                TradeResult(i, position, entry_price, close))
            /\ entry_bars' = Append(entry_bars, entry_bar)
            /\ position' = PositionAfterExit(position, sig)
            /\ entry_price' = Zero
            /\ entry_bar' = 0
       ELSE UNCHANGED <<position, entry_price, trades, entry_bar, entry_bars>>

\* mutant: the position still open at the end of the data is marked to the
\* last close and its pnl added to total_return
BacktestResult_MarkToMarket(ts) ==
    LET m == calculate_metrics(ts)
    IN [status |-> "ok",
        total_return |-> IF position = 0 THEN m.total_return
                         ELSE FAdd(m.total_return,
                                   Pnl(position, entry_price, current_close)),
        sharpe_ratio |-> m.sharpe_ratio,
        max_drawdown |-> m.max_drawdown,
        win_rate |-> m.win_rate,
        profit_factor |-> m.profit_factor,
        trades |-> ts]

\* mutant: the position still open at the end of the data is appended to the
\* ledger as an OPEN trade
BacktestResult_RecordOpen(ts) ==
    LET all == IF position = 0 THEN ts
               ELSE Append(ts, [TradeResult(i, position, entry_price,
                                            current_close)
                                EXCEPT !.status = "OPEN"])
        m == calculate_metrics(ts)
    IN [status |-> "ok",
        total_return |-> m.total_return,
        sharpe_ratio |-> m.sharpe_ratio,
        max_drawdown |-> m.max_drawdown,
        win_rate |-> m.win_rate,
        profit_factor |-> m.profit_factor,
        trades |-> all]

\* what run_backtest returns once the loop is over
BacktestResult(ts) ==
    LET m == calculate_metrics(ts)
    IN [status |-> "ok",
        total_return |-> m.total_return,
        sharpe_ratio |-> m.sharpe_ratio,
        max_drawdown |-> m.max_drawdown,
        win_rate |-> m.win_rate,
        profit_factor |-> m.profit_factor,
        trades |-> ts]

----------------------------------------------------------------------------
(* StatisticalPatternStrategy                                              *)
(*                                                                         *)
(* Log returns are carried in units of ln 2: the closes of a fetched       *)
(* series are taken from a grid of prices whose ratios are powers of two,  *)
(* so that every log return is an integer number of units.  Standard       *)
(* deviations and everything derived from them by products and quotients   *)
(* (normalized returns, z-scores, regime mean and volatility, position     *)
(* sizes) are carried as signed squares, see SignedSquare.                 *)

DefaultLookbackPeriod == 252
DefaultVolatilityWindow == 21
DefaultNumStates == 3
DefaultRegimeThreshold == <<3, 2>>

DefaultParameters ==
    [lookback_period |-> DefaultLookbackPeriod,
     regime_threshold |-> DefaultRegimeThreshold,
     volatility_window |-> DefaultVolatilityWindow,
     num_states |-> DefaultNumStates]

\* a parameter set with short windows
ShortLookbackPeriod == 3
ShortVolatilityWindow == 2

ShortParameters ==
    [lookback_period |-> ShortLookbackPeriod,
     regime_threshold |-> <<1, 2>>,
     volatility_window |-> ShortVolatilityWindow,
     num_states |-> DefaultNumStates]

\* short windows, and the default threshold: no z-score over a window of
\* ShortLookbackPeriod bars reaches it
CalmParameters ==
    [lookback_period |-> ShortLookbackPeriod,
     regime_threshold |-> DefaultRegimeThreshold,
     volatility_window |-> ShortVolatilityWindow,
     num_states |-> DefaultNumStates]

\* self.current_state = None
NoneState == [kind |-> "None"]

MarkovState(mean_return, volatility, probability) ==
    [kind |-> "MarkovState", mean_return |-> mean_return,
     volatility |-> volatility, probability |-> probability]

\* MarkovState(0, 0, 0)
ZeroState == MarkovState(Zero, Zero, Zero)

\* log2(a / b) for integers a, b > 0 whose ratio is a power of two
RECURSIVE Log2Ratio(_, _)
Log2Ratio(a, b) ==
    IF a = b THEN 0
    ELSE IF a > b THEN 1 + Log2Ratio(a, 2 * b)
    ELSE Log2Ratio(2 * a, b) - 1

\* np.log(data['close'] / data['close'].shift(1)).fillna(0)
LogReturns(close) ==
    [k \in 1..Len(close) |->
        IF k = 1 THEN Zero ELSE F(Log2Ratio(close[k][1], close[k - 1][1]))]

\* ndarray.var(), population variance (ddof = 0); ndarray.std() is its root
PopVar(xs) ==
    LET m == Mean(xs)
        sq == [k \in 1..Len(xs) |-> FMul(FSub(xs[k], m), FSub(xs[k], m))]
    IN FDiv(PySum(sq), F(Len(xs)))

\* Series.rolling(window=w).mean(): NaN until w values are there
RollingMean(xs, w) ==
    [k \in 1..Len(xs) |->
        IF k < w THEN NaN ELSE Mean(SubSeq(xs, k - w + 1, k))]

\* Series.rolling(window=w).std(), squared
RollingVar(xs, w) ==
    [k \in 1..Len(xs) |->
        IF k < w THEN NaN ELSE SampleVar(SubSeq(xs, k - w + 1, k))]

\* the float a sum that is exactly zero can come out as: zero, or a rounding
\* residue of either sign (Eps stands for a residue)
Eps == <<1, 10000>>

RoundedZero == {Zero, Eps, FNeg(Eps)}

\* mutant: the threshold of the last bucket is 1, not +inf
NormPpfSq_FiniteLast(j, n) ==
    IF j = n THEN One
    ELSE IF 2 * j = n THEN Zero
    ELSE IF n = 3 THEN (IF j = 1 THEN <<-18553, 100000>> ELSE <<18553, 100000>>)
    ELSE IF n = 4 THEN (IF j = 1 THEN <<-45494, 100000>> ELSE <<45494, 100000>>)
    ELSE IF j = 1 THEN <<-70833, 100000>>
    ELSE IF j = 2 THEN <<-6418, 100000>>
    ELSE IF j = 3 THEN <<6418, 100000>>
    ELSE <<70833, 100000>>

\* norm.ppf(j / n) as a signed square (to 5 places); norm.ppf(1) = +inf
NormPpfSq(j, n) ==
    IF j = n THEN Inf
    ELSE IF 2 * j = n THEN Zero
    ELSE IF n = 3 THEN (IF j = 1 THEN <<-18553, 100000>> ELSE <<18553, 100000>>)
    ELSE IF n = 4 THEN (IF j = 1 THEN <<-45494, 100000>> ELSE <<45494, 100000>>)
    ELSE IF j = 1 THEN <<-70833, 100000>>
    ELSE IF j = 2 THEN <<-6418, 100000>>
    ELSE IF j = 3 THEN <<6418, 100000>>
    ELSE <<70833, 100000>>

\* the state of one bucket: devs are the window's returns less their mean,
\* members the indices of the bucket
BucketState(devs, popvar, members, eps) ==
    LET sub == [k \in 1..Len(members) |-> devs[members[k]]]
        mean_sq == FDiv(SignedSquare(Mean(sub)), popvar)
    IN MarkovState(IF mean_sq = Zero THEN eps ELSE mean_sq,
                   FDiv(PopVar(sub), popvar),
                   FDiv(F(Len(members)), F(Len(devs))))

\* mutant: a state is appended for an empty bucket too
RECURSIVE RegimeStates_NoEmptyTest(_, _, _, _, _)
RegimeStates_NoEmptyTest(devs, popvar, n, num_states, eps) ==
    IF n = 0 THEN <<>>
    ELSE LET threshold == NormPpfSq(n, num_states)
             normalized == [k \in 1..Len(devs) |->
                               FDiv(SignedSquare(devs[k]), popvar)]
             members == SelectSeq([k \in 1..Len(devs) |-> k],
                                  LAMBDA k : FLe(normalized[k], threshold))
             before == RegimeStates_NoEmptyTest(devs, popvar, n - 1,
                                                num_states, eps)
         IN Append(before, BucketState(devs, popvar, members, eps))

\* the list "states" built by the loop over range(num_states)
RECURSIVE RegimeStates(_, _, _, _, _)
RegimeStates(devs, popvar, n, num_states, eps) ==
    IF n = 0 THEN <<>>
    ELSE LET threshold == NormPpfSq(n, num_states)
             normalized == [k \in 1..Len(devs) |->
                               FDiv(SignedSquare(devs[k]), popvar)]
             members == SelectSeq([k \in 1..Len(devs) |-> k],
                                  LAMBDA k : FLe(normalized[k], threshold))
             before == RegimeStates(devs, popvar, n - 1, num_states, eps)
         IN IF Len(members) > 0
            THEN Append(before, BucketState(devs, popvar, members, eps))
            ELSE before

\* mutant: the state of the first bucket, whatever its probability
MostProbable_First(states) == states[1]

\* max(states, key=lambda x: x.probability): the first of the largest
MostProbable(states) ==
    states[CHOOSE j \in 1..Len(states) :
              /\ \A l \in 1..Len(states) :
                    FLe(states[l].probability, states[j].probability)
              /\ \A l \in 1..(j - 1) :
                    FLt(states[l].probability, states[j].probability)]

\* identify_market_regime: the state returned and self.current_state after it
identify_market_regime(returns, p, cs, eps) ==
    IF Len(returns) < p.lookback_period
    THEN [regime |-> ZeroState, current_state |-> cs]
    ELSE LET window == SubSeq(returns, Len(returns) - p.lookback_period + 1,
                              Len(returns))
             rolling_mean == Mean(window)
             rolling_vol == PopVar(window)
             devs == [k \in 1..Len(window) |-> FSub(window[k], rolling_mean)]
             states == RegimeStates(devs, rolling_vol, p.num_states,
                                    p.num_states, eps)
         IN IF states # <<>>
            THEN [regime |-> MostProbable(states),
                  current_state |-> MostProbable(states)]
            ELSE [regime |-> ZeroState, current_state |-> cs]

\* mutant: z_scores > regime_threshold, without np.abs
detect_anomalies_NoAbs(close, p) ==
    IF Len(close) < p.lookback_period
    THEN [k \in 1..Len(close) |-> FALSE]
    ELSE LET returns == LogReturns(close)
             rolling_mean == RollingMean(returns, p.lookback_period)
             rolling_var == RollingVar(returns, p.lookback_period)
             z_scores == [k \in 1..Len(close) |->
                             FDiv(SignedSquare(FSub(returns[k], rolling_mean[k])),
                                  rolling_var[k])]
         IN [k \in 1..Len(close) |->
                FGt(z_scores[k], SignedSquare(p.regime_threshold))]

\* detect_anomalies: one flag per bar
detect_anomalies(close, p) ==
    IF Len(close) < p.lookback_period
    THEN [k \in 1..Len(close) |-> FALSE]
    ELSE LET returns == LogReturns(close)
             rolling_mean == RollingMean(returns, p.lookback_period)
             rolling_var == RollingVar(returns, p.lookback_period)
             z_scores == [k \in 1..Len(close) |->
                             FDiv(SignedSquare(FSub(returns[k], rolling_mean[k])),
                                  rolling_var[k])]
         IN [k \in 1..Len(close) |->
                FGt(FAbs(z_scores[k]), SignedSquare(p.regime_threshold))]

\* the least a >= from with a * a >= n
RECURSIVE IntRoot(_, _)
IntRoot(n, from) == IF from * from >= n THEN from ELSE IntRoot(n, from + 1)

\* the square root of a float that is the square of a float (no value
\* otherwise: the root is then not a float of the model)
FSqrt(x) ==
    IF x[2] = 0 THEN x
    ELSE LET a == IntRoot(x[1], 0)
             b == IntRoot(x[2], 1)
         IN IF a * a = x[1] /\ b * b = x[2] THEN <<a, b>>
            ELSE CHOOSE y \in {} : TRUE

\* kelly_fraction of calculate_position_sizes; "if self.current_state" is
\* true of every MarkovState object
KellyFraction(cs) ==
    IF cs.kind = "None" THEN <<1, 2>>
    ELSE LET win_prob == cs.probability
             ratio_sq == FDiv(FAbs(cs.mean_return), cs.volatility)
             win_loss_ratio == FSqrt(ratio_sq)
         IN FSub(win_prob, FDiv(FSub(One, win_prob), win_loss_ratio))

\* (ln 2)^2, to 5 places: a variance in units of ln 2 times Ln2Sq is the
\* variance of the log returns
Ln2Sq == <<48045, 100000>>

\* np.clip(x, -1, 1); NaN stays NaN
Clip(x) ==
    IF IsNaN(x) THEN NaN
    ELSE IF FLt(x, F(-1)) THEN F(-1)
    ELSE IF FGt(x, One) THEN One
    ELSE x

\* calculate_position_sizes: the clipped position size of every bar, as a
\* signed square
calculate_position_sizes(close, anomalies, p, cs) ==
    LET returns == LogReturns(close)
        volatility == RollingVar(returns, p.volatility_window)
        kelly_fraction == KellyFraction(cs)
        sign == [k \in 1..Len(close) |-> F(Sgn(returns[k][1]))]
        position_sizes ==
            [k \in 1..Len(close) |->
                IF anomalies[k]
                THEN FMul(SignedSquare(FMul(sign[k], kelly_fraction)),
                          FDiv(One, FMul(Ln2Sq, volatility[k])))
                ELSE SignedSquare(FMul(FMul(sign[k], kelly_fraction),
                                       <<1, 2>>))]
    IN [k \in 1..Len(close) |-> Clip(position_sizes[k])]

\* np.sign of a float
FSign(x) == IF IsNaN(x) THEN NaN ELSE F(Sgn(x[1]))

VolumeWindow == 20
VolatilityFilterWindow == 20

\* number of entries of xs that are not NaN and satisfy Test
CountIf(xs, Test(_)) ==
    Cardinality({k \in 1..Len(xs) : ~IsNaN(xs[k]) /\ Test(xs[k])})

\* the n-th smallest (n >= 1) of the entries of xs that are not NaN
Smallest(xs, n) ==
    CHOOSE v \in {xs[k] : k \in {j \in 1..Len(xs) : ~IsNaN(xs[j])}} :
        /\ CountIf(xs, LAMBDA x : FLt(x, v)) < n
        /\ CountIf(xs, LAMBDA x : FLe(x, v)) >= n

\* volatility < volatility.quantile(0.1), per bar.  The quantile is the
\* linear interpolation lo + frac * (hi - lo) between two neighbours lo <= hi
\* of the sorted entries that are not NaN, at rank 0.1 * (count - 1); an
\* entry is below it iff it is below lo, or equal to lo with frac > 0 and
\* lo < hi.  Decided on the squares, which are in the same order.
BelowQuantile10(xs) ==
    LET count == CountIf(xs, LAMBDA x : TRUE)
        rank == (count - 1) \div 10
        frac == (count - 1) % 10
        lo == Smallest(xs, rank + 1)
        hi == IF rank + 2 <= count THEN Smallest(xs, rank + 2) ELSE lo
    IN [k \in 1..Len(xs) |->
           /\ count > 0
           /\ \/ FLt(xs[k], lo)
              \/ (FEq(xs[k], lo) /\ frac > 0 /\ FLt(lo, hi))]

\* the body of generate_signals after the validation of the columns: the
\* series returned, self.current_state after the call, and the intermediate
\* results
generate_signals(close, volume, p, cs, eps) ==
    LET returns == LogReturns(close)
        identified == identify_market_regime(returns, p, cs, eps)
        anomalies == detect_anomalies(close, p)
        positions == calculate_position_sizes(close, anomalies, p,
                                              identified.current_state)
        volume_ma == RollingMean(volume, VolumeWindow)
        volatility == RollingVar(returns, VolatilityFilterWindow)
        quiet == BelowQuantile10(volatility)
    IN [signals |->
            [k \in 1..Len(close) |->
                IF FLt(volume[k], FMul(volume_ma[k], <<1, 2>>)) \/ quiet[k]
                THEN Zero
                ELSE FSign(positions[k])],
        regime |-> identified.regime,
        current_state |-> identified.current_state,
        anomalies |-> anomalies,
        positions |-> positions]

RequiredColumns == {"open", "high", "low", "close", "volume"}

\* generate_signals, the whole method: a missing column raises ValueError
\* inside the try block, "except Exception" catches it, and the method
\* returns pd.Series(index=data.index, data=0)
generate_signals_guarded(cols, close, volume, p, cs, eps) ==
    IF RequiredColumns \subseteq cols
    THEN generate_signals(close, volume, p, cs, eps)
    ELSE [signals |-> [k \in 1..Len(close) |-> Zero],
          regime |-> NoneState,
          current_state |-> cs,
          anomalies |-> <<>>,
          positions |-> <<>>]

----------------------------------------------------------------------------
(* RiskManager (src/risk_management/risk_manager.py)                       *)
(*                                                                         *)
(* An optional float (trade_result, None when no trade was closed) is a    *)
(* sequence of at most one float.  The Sharpe ratio of get_metrics is      *)
(* carried as a signed square.                                             *)

\* config.get('max_drawdown', 0.1)
DefaultMaxDrawdownLimit == <<1, 10>>

\* the dictionary reset_metrics builds
reset_metrics ==
    [max_drawdown |-> Zero, current_drawdown |-> Zero, peak_value |-> One,
     returns |-> <<>>, wins |-> 0, losses |-> 0,
     total_profit |-> Zero, total_loss |-> Zero]

\* mutant: the latest value replaces the maximum
PyMax_Latest(a, b) == b

\* python's max(a, b): b when b > a, else a
PyMax(a, b) == IF FGt(b, a) THEN b ELSE a

\* self.metrics after update_metrics(current_value, trade_result)
update_metrics(m, current_value, trade_result) ==
    LET peak_value == IF FGt(current_value, m.peak_value) THEN current_value
                      ELSE m.peak_value
        current_drawdown == FDiv(FSub(peak_value, current_value), peak_value)
        drawn == [m EXCEPT !.peak_value = peak_value,
                           !.current_drawdown = current_drawdown,
                           !.max_drawdown = PyMax(m.max_drawdown,
                                                  current_drawdown)]
    IN IF trade_result = <<>> THEN drawn
       ELSE LET r == trade_result[1]
                counted ==
                    IF FGt(r, Zero)
                    THEN [drawn EXCEPT !.wins = @ + 1,
                                       !.total_profit = FAdd(@, r)]
                    ELSE [drawn EXCEPT !.losses = @ + 1,
                                       !.total_loss = FAdd(@, FAbs(r))]
            IN [counted EXCEPT !.returns = Append(@, r)]

\* number of returns from which var_95 is computed
Var95MinReturns == 20

\* np.percentile(xs, q), linear interpolation between the two neighbours of
\* rank (len - 1) * q / 100 of the sorted values
Percentile(xs, q) ==
    LET rank == ((Len(xs) - 1) * q) \div 100
        frac == Norm(((Len(xs) - 1) * q) % 100, 100)
        lo == Smallest(xs, rank + 1)
        hi == IF rank + 2 <= Len(xs) THEN Smallest(xs, rank + 2) ELSE lo
    IN FAdd(lo, FMul(frac, FSub(hi, lo)))

\* mutant: var_95 is computed from the first recorded return on
get_metrics_Var95Always(m) ==
    LET total_trades == m.wins + m.losses
    IN [max_drawdown |-> m.max_drawdown,
        current_drawdown |-> m.current_drawdown,
        var_95 |-> IF m.returns # <<>> THEN Percentile(m.returns, 5) ELSE Zero,
        sharpe_ratio |-> IF m.returns # <<>> /\ FNe(PopVar(m.returns), Zero)
                         THEN FDiv(SignedSquare(Mean(m.returns)),
                                   PopVar(m.returns))
                         ELSE Zero,
        win_rate |-> IF total_trades > 0
                     THEN FDiv(F(m.wins), F(total_trades)) ELSE Zero,
        profit_factor |-> IF FNe(m.total_loss, Zero)
                          THEN FDiv(m.total_profit, FAbs(m.total_loss))
                          ELSE Inf]

\* the RiskMetrics get_metrics returns (without its timestamp)
get_metrics(m) ==
    LET total_trades == m.wins + m.losses
    IN [max_drawdown |-> m.max_drawdown,
        current_drawdown |-> m.current_drawdown,
        var_95 |-> IF m.returns # <<>> /\ Len(m.returns) >= Var95MinReturns
                   THEN Percentile(m.returns, 5) ELSE Zero,
        sharpe_ratio |-> IF m.returns # <<>> /\ FNe(PopVar(m.returns), Zero)
                         THEN FDiv(SignedSquare(Mean(m.returns)),
                                   PopVar(m.returns))
                         ELSE Zero,
        win_rate |-> IF total_trades > 0
                     THEN FDiv(F(m.wins), F(total_trades)) ELSE Zero,
        profit_factor |-> IF FNe(m.total_loss, Zero)
                          THEN FDiv(m.total_profit, FAbs(m.total_loss))
                          ELSE Inf]

\* mutant: the gate reads the historical max_drawdown
check_risk_limits_MaxDrawdown(m, limit) ==
    ~FGt(m.max_drawdown, limit)

\* check_risk_limits: False when current_drawdown > max_drawdown_limit
check_risk_limits(m, limit) ==
    ~FGt(m.current_drawdown, limit)

\* no RiskMetrics returned yet
NoRiskMetrics == [status |-> "none"]

\* a RiskManager built from an empty config, no method called yet
RiskManagerConstructed ==
    /\ metrics = reset_metrics
    /\ max_drawdown_limit = DefaultMaxDrawdownLimit
    /\ last_op = "__init__"
    /\ last_value = <<>>
    /\ updates = 0
    /\ limits_ok = TRUE
    /\ risk_metrics = NoRiskMetrics

----------------------------------------------------------------------------
(* Technical indicators (src/utils/technical_indicators.py)                *)
(*                                                                         *)
(* calculate_volatility and calculate_zscore are carried as signed         *)
(* squares.  detect_regime is given an array as what it reads of it: its   *)
(* length, what scipy.stats.skew and scipy.stats.kurtosis return for it,   *)
(* and the slope np.polyfit fits in calculate_hurst_exponent, which is     *)
(* read only when the array has HurstMinSamples samples or more.           *)

\* xs[-n:] for n >= 1
LastN(xs, n) ==
    SubSeq(xs, IF Len(xs) > n THEN Len(xs) - n + 1 ELSE 1, Len(xs))

\* np.diff(xs)
Diff(xs) == [k \in 1..(Len(xs) - 1) |-> FSub(xs[k + 1], xs[k])]

TradingDays == 252

calculate_volatility(returns, window) ==
    IF Len(returns) < window THEN Zero
    ELSE FMul(PopVar(LastN(returns, window)), F(TradingDays))

HurstMinSamples == 100

Sample(len, skew, kurtosis, slope) ==
    [len |-> len, skew |-> skew, kurtosis |-> kurtosis, slope |-> slope]

\* mutant: the regression is run on an array of any length
calculate_hurst_exponent_NoMinimum(returns) == returns.slope

calculate_hurst_exponent(returns) ==
    IF returns.len < HurstMinSamples THEN <<1, 2>> ELSE returns.slope

\* mutant: the label of the last branch is 'bullish'
detect_regime_Bullish(returns, threshold) ==
    IF returns.len < 2 THEN "neutral"
    ELSE LET hurst == calculate_hurst_exponent(returns)
         IN IF FGt(hurst, <<3, 5>>) /\ FGt(FAbs(returns.skew), threshold)
            THEN "trending"
            ELSE IF FLt(hurst, <<2, 5>>) /\ FGt(returns.kurtosis, F(3))
            THEN "mean_reverting"
            ELSE "bullish"

detect_regime(returns, threshold) ==
    IF returns.len < 2 THEN "neutral"
    ELSE LET hurst == calculate_hurst_exponent(returns)
         IN IF FGt(hurst, <<3, 5>>) /\ FGt(FAbs(returns.skew), threshold)
            THEN "trending"
            ELSE IF FLt(hurst, <<2, 5>>) /\ FGt(returns.kurtosis, F(3))
            THEN "mean_reverting"
            ELSE "neutral"

\* mutant: no test of the window's standard deviation
calculate_zscore_NoZeroTest(series, window) ==
    IF Len(series) < window THEN Zero
    ELSE LET tail == LastN(series, window)
         IN FDiv(SignedSquare(FSub(series[Len(series)], Mean(tail))),
                 PopVar(tail))

calculate_zscore(series, window) ==
    IF Len(series) < window THEN Zero
    ELSE LET tail == LastN(series, window)
             rolling_mean == Mean(tail)
             rolling_var == PopVar(tail)
         IN IF FEq(rolling_var, Zero) THEN Zero
            ELSE FDiv(SignedSquare(FSub(series[Len(series)], rolling_mean)),
                      rolling_var)

calculate_momentum(prices, period) ==
    IF Len(prices) < period THEN Zero
    ELSE FSub(FDiv(prices[Len(prices)], prices[Len(prices) - period + 1]),
              One)

\* np.maximum(delta, 0)
Gains(delta) ==
    [k \in 1..Len(delta) |->
        IF IsNaN(delta[k]) THEN NaN
        ELSE IF FGt(delta[k], Zero) THEN delta[k] ELSE Zero]

\* -np.minimum(delta, 0)
Losses(delta) ==
    [k \in 1..Len(delta) |->
        IF IsNaN(delta[k]) THEN NaN
        ELSE IF FLt(delta[k], Zero) THEN FNeg(delta[k]) ELSE Zero]

calculate_rsi(prices, period) ==
    IF Len(prices) < period + 1 THEN F(50)
    ELSE LET delta == Diff(prices)
             avg_gain == Mean(LastN(Gains(delta), period))
             avg_loss == Mean(LastN(Losses(delta), period))
         IN IF FEq(avg_loss, Zero) THEN F(100)
            ELSE LET rs == FDiv(avg_gain, avg_loss)
                 IN FSub(F(100), FDiv(F(100), FAdd(One, rs)))

----------------------------------------------------------------------------
(* StatisticalPatternStrategy of the live system                           *)
(* (src/strategies/statistical_pattern.py)                                 *)
(*                                                                         *)
(* A dict is a function from its keys.  A market_data dict is the record   *)
(* of its 'symbol' and its 'close' (its 'timestamp' is handed through to   *)
(* the Signal and left out).  The z-score, the strength and the            *)
(* volatility are carried as signed squares, log returns in units of ln 2. *)

\* {}
EmptyDict == [name \in {} |-> Zero]

\* the defaults of initialize
ParameterDefaults ==
    [lookback_period |-> F(20), volatility_window |-> F(20),
     entry_threshold |-> F(2), exit_threshold |-> One,
     position_size |-> <<1, 10>>, regime_threshold |-> <<1, 2>>,
     num_states |-> F(3), confidence_level |-> <<19, 20>>]

\* self.parameters.get(name, default)
Attribute(dict, name) ==
    IF name \in DOMAIN dict THEN dict[name] ELSE ParameterDefaults[name]

\* dict.update(other)
DictUpdate(dict, other) ==
    [name \in DOMAIN dict \cup DOMAIN other |->
        IF name \in DOMAIN other THEN other[name] ELSE dict[name]]

\* self.state.metadata after initialize
InitialMetadata ==
    [regime |-> "neutral", volatility |-> Zero, z_score |-> Zero,
     confidence |-> Zero]

\* no Signal returned yet
NoSignal == [direction |-> "none"]

ClosesOf(data) == [k \in 1..Len(data) |-> data[k].close]

\* np.diff(np.log(prices))
DiffLog(prices) ==
    [k \in 1..(Len(prices) - 1) |->
        F(Log2Ratio(prices[k + 1][1], prices[k][1]))]

update_state(dict, data, meta, market_data) ==
    LET appended == Append(data, market_data)
        kept == IF Len(appended) > Attribute(dict, "lookback_period")[1]
                THEN Tail(appended) ELSE appended
        volatility_window == Attribute(dict, "volatility_window")[1]
    IN [historical_data |-> kept,
        metadata |->
            IF Len(kept) >= volatility_window
            THEN [meta EXCEPT !.volatility =
                     PopVar(DiffLog(ClosesOf(LastN(kept, volatility_window))))]
            ELSE meta]

\* 1 - norm.cdf(z) for z >= 0 given as a square, rounded up to a multiple of
\* 0.1: its order against a multiple of 0.1 is that of the exact value
NormSf(zsq) ==
    IF IsNaN(zsq) THEN NaN
    ELSE IF FLt(zsq, <<6418, 100000>>) THEN <<1, 2>>
    ELSE IF FLt(zsq, <<27500, 100000>>) THEN <<2, 5>>
    ELSE IF FLt(zsq, <<70833, 100000>>) THEN <<3, 10>>
    ELSE IF FLt(zsq, <<164237, 100000>>) THEN <<1, 5>>
    ELSE IF IsFinite(zsq) THEN <<1, 10>>
    ELSE Zero

\* python's min(a, b)
PyMin(a, b) == IF FLt(b, a) THEN b ELSE a

\* skew and kurtosis are what scipy.stats returns for the returns
generate_signal(dict, data, meta, market_data, skew, kurtosis) ==
    IF Len(data) < Attribute(dict, "lookback_period")[1]
    THEN [signal |-> [symbol |-> market_data.symbol, direction |-> "neutral",
                      strength |-> Zero, metadata |-> meta],
          metadata |-> meta]
    ELSE LET prices == ClosesOf(data)
             returns == DiffLog(prices)
             z_score == FDiv(SignedSquare(FSub(prices[Len(prices)],
                                               Mean(prices))),
                             PopVar(prices))
             confidence == NormSf(FAbs(z_score))
             updated ==
                 [meta EXCEPT
                     !.regime = detect_regime(
                                    Sample(Len(returns), skew, kurtosis, NaN),
                                    Attribute(dict, "regime_threshold")),
                     !.z_score = z_score,
                     !.confidence = confidence]
             entry == SignedSquare(Attribute(dict, "entry_threshold"))
             confident ==
                 FGt(confidence, Attribute(dict, "confidence_level"))
             strength == PyMin(One, FDiv(FAbs(z_score), FMul(F(4), entry)))
             direction ==
                 IF updated.regime = "bullish" /\ FLt(z_score, FNeg(entry))
                    /\ confident
                 THEN "long"
                 ELSE IF updated.regime = "bearish" /\ FGt(z_score, entry)
                         /\ confident
                 THEN "short"
                 ELSE "neutral"
         IN [signal |-> [symbol |-> market_data.symbol,
                         direction |-> direction,
                         strength |-> IF direction = "neutral" THEN Zero
                                      ELSE strength,
                         metadata |-> updated],
             metadata |-> updated]

\* set_parameters: the dict is updated, initialize resets the rest
set_parameters(dict, other) ==
    [parameters |-> DictUpdate(dict, other),
     historical_data |-> <<>>,
     metadata |-> InitialMetadata]

----------------------------------------------------------------------------
(* The two configuration handlers: configure_strategy of src/api.py, which *)
(* runs a backtest with the parameters of the request, and                 *)
(* configure_strategy of src/api/main.py, which hands them to the live     *)
(* strategy of PythiaCore.                                                 *)

\* src/api.py get_strategies: min and max of every parameter
ParameterBounds ==
    [lookback_period |-> [min |-> F(50), max |-> F(504)],
     regime_threshold |-> [min |-> <<1, 2>>, max |-> F(3)],
     volatility_window |-> [min |-> F(5), max |-> F(63)],
     num_states |-> [min |-> F(2), max |-> F(5)],
     confidence_level |-> [min |-> <<4, 5>>, max |-> <<99, 100>>]]

\* the strategies both handlers know
Strategies == {"statistical_pattern"}

\* float(text): <<the value>>, or <<>> when float raises ValueError
PyFloat(text) ==
    CASE text = "252" -> <<F(252)>>
      [] text = "10" -> <<F(10)>>
      [] text = "3" -> <<F(3)>>
      [] text = "0.9" -> << <<9, 10>> >>
      [] text = "nan" -> <<NaN>>
      [] text = "inf" -> <<Inf>>
      [] OTHER -> <<>>

\* src/api.py configure_strategy up to the call of run_backtest: <<the
\* parameters handed to run_backtest>>, or <<>> when an HTTPException is
\* raised
validated_parameters(strategy_id, request_parameters) ==
    IF strategy_id \notin Strategies THEN <<>>
    ELSE IF \E name \in DOMAIN request_parameters :
                \/ name \notin DOMAIN ParameterBounds
                \/ PyFloat(request_parameters[name]) = <<>>
    THEN <<>>
    ELSE LET converted ==
                 [name \in DOMAIN request_parameters |->
                     PyFloat(request_parameters[name])[1]]
         IN IF \E name \in DOMAIN converted :
                   \/ FLt(converted[name], ParameterBounds[name].min)
                   \/ FGt(converted[name], ParameterBounds[name].max)
            THEN <<>>
            ELSE <<converted>>

\* PythiaCore.update_strategy_parameters: <<what set_parameters leaves>>, or
\* <<>> when ValueError is raised
update_strategy_parameters(dict, strategy_name, other) ==
    IF strategy_name \notin Strategies THEN <<>>
    ELSE <<set_parameters(dict, other)>>

\* no indicator called, the live strategy built from a config without
\* parameters, no configuration request served
ServicesIdle ==
    /\ indicator = "none"
    /\ indicator_args = <<>>
    /\ indicator_value = Zero
    /\ parameters = EmptyDict
    /\ historical_data = <<>>
    /\ metadata = InitialMetadata
    /\ signal = NoSignal
    /\ request = [handler |-> "none"]
    /\ response = 0
    /\ backtest_parameters = <<>>

----------------------------------------------------------------------------
(* Specification Spec: the simulation loop and the metrics over every      *)
(* signal series and close series of at most MaxBars bars.  The series is  *)
(* not stored: the entry of bar i is drawn when the loop reads it, and the *)
(* series may end after any bar.  A signal is an entry of                  *)
(* np.sign(positions): -1.0, 0.0, 1.0, or NaN when the position size is    *)
(* NaN (statistical_pattern_strategy.py lines 112 and 142).  Bar 0 is      *)
(* never read by the loop (range(1, len(data))).                           *)

SignalValues == {F(-1), Zero, F(1), NaN}

\* the columns of the DataFrame fetch_historical_data builds
FetchedColumns ==
    {"timestamp", "open", "high", "low", "close", "volume", "close_time",
     "quote_volume", "trades", "taker_buy_base", "taker_buy_quote", "ignored"}

Prices == {F(100), F(110), F(250)}

Init ==
    /\ pc = "simulating"
    /\ closes = <<>>
    /\ volumes = <<>>
    /\ signals = <<>>
    /\ i = 1
    /\ current_signal = Zero
    /\ current_close = Zero
    /\ position = 0
    /\ entry_price = Zero
    /\ trades = <<>>
    /\ entry_bar = 0
    /\ entry_bars = <<>>
    /\ result = NoResult
    /\ params = DefaultParameters
    /\ current_state = NoneState
    /\ regime = NoneState
    /\ columns = FetchedColumns
    /\ anomaly_series = <<>>
    /\ position_series = <<>>
    /\ calls = 0
    /\ RiskManagerConstructed
    /\ ServicesIdle

\* the loop body on bar i of the series
NextBar ==
    /\ pc = "simulating"
    /\ i < MaxBars
    /\ \E sig \in SignalValues, close \in Prices : SimulateBar(sig, close)
    /\ UNCHANGED <<pc, closes, volumes, signals, result, params, current_state,
                   regime, stratVars, riskVars, indVars,
                   barVars, apiVars>>

\* i = len(data): the loop is over, the metrics are computed and returned
EndOfSeries ==
    /\ pc = "simulating"
    /\ result' = BacktestResult(trades)
    /\ pc' = "done"
    /\ UNCHANGED <<closes, volumes, signals, i, current_signal, current_close,
                   position, entry_price, trades, entry_bar, entry_bars,
                   params, current_state, regime, stratVars, riskVars, indVars,
                   barVars, apiVars>>

Next == NextBar \/ EndOfSeries

Spec == Init /\ [][Next]_vars

----------------------------------------------------------------------------
(* Specification SpecBacktest: run_backtest from the fetched bars on, with *)
(* a fresh strategy instance built with the default parameters or with     *)
(* ShortParameters.  The fetched series is every series of at most         *)
(* MaxFetched bars over PriceGrid x Volumes (no bars at all when the       *)
(* exchange has no klines for the period), or FlatBars bars that are all   *)
(* the same, or FilterBars bars that alternate between two prices at a     *)
(* steady volume before a last bar of any price and volume (both with the  *)
(* default parameters).                                                    *)

PriceGrid == {F(100), F(200), F(400)}

Volumes == {F(10), F(40)}

\* the series of at most n bars over S, the empty series included
SeriesOver(S, n) == UNION {[1..m -> S] : m \in 0..n}

InitBacktest ==
    /\ pc = "fetched"
    /\ \/ /\ closes \in SeriesOver(PriceGrid, MaxFetched)
          /\ volumes \in SeriesOver(Volumes, MaxFetched)
          /\ Len(volumes) = Len(closes)
          /\ params \in {DefaultParameters, ShortParameters}
       \/ /\ closes = [k \in 1..FlatBars |-> F(100)]
          /\ \E v \in Volumes : volumes = [k \in 1..FlatBars |-> v]
          /\ params = DefaultParameters
       \/ /\ \E last \in PriceGrid :
                closes = [k \in 1..FilterBars |->
                             IF k = FilterBars THEN last
                             ELSE IF k % 2 = 0 THEN F(200) ELSE F(100)]
          /\ \E v \in Volumes :
                volumes = [k \in 1..FilterBars |->
                              IF k = FilterBars THEN v ELSE F(40)]
          /\ params = DefaultParameters
    /\ signals = <<>>
    /\ i = 1
    /\ current_signal = Zero
    /\ current_close = Zero
    /\ position = 0
    /\ entry_price = Zero
    /\ trades = <<>>
    /\ entry_bar = 0
    /\ entry_bars = <<>>
    /\ result = NoResult
    /\ current_state = NoneState
    /\ regime = NoneState
    /\ columns = FetchedColumns
    /\ anomaly_series = <<>>
    /\ position_series = <<>>
    /\ calls = 0
    /\ RiskManagerConstructed
    /\ ServicesIdle

\* signals = strategy.generate_signals(data)
GenerateSignals ==
    /\ pc = "fetched"
    /\ \E eps \in RoundedZero :
          \E g \in {generate_signals_guarded(columns, closes, volumes, params,
                                            current_state, eps)} :
             /\ signals' = g.signals
             /\ regime' = g.regime
             /\ current_state' = g.current_state
             /\ anomaly_series' = g.anomalies
             /\ position_series' = g.positions
    /\ calls' = calls + 1
    /\ pc' = "simulating"
    /\ UNCHANGED <<closes, volumes, columns, i, current_signal, current_close,
                   position, entry_price, trades, entry_bar, entry_bars, result,
                   params, riskVars, indVars,
                   barVars, apiVars>>

\* the loop body on bar i of the fetched series
LoopBar ==
    /\ pc = "simulating"
    /\ i < Len(closes)
    /\ SimulateBar(signals[i + 1], closes[i + 1])
    /\ UNCHANGED <<pc, closes, volumes, signals, result, params, current_state,
                   regime, stratVars, riskVars, indVars,
                   barVars, apiVars>>

\* the loop is over: the metrics are computed and the result returned
LoopEnd ==
    /\ pc = "simulating"
    /\ i >= Len(closes)
    /\ result' = BacktestResult(trades)
    /\ pc' = "done"
    /\ UNCHANGED <<closes, volumes, signals, i, current_signal, current_close,
                   position, entry_price, trades, entry_bar, entry_bars,
                   params, current_state, regime, stratVars, riskVars, indVars,
                   barVars, apiVars>>

NextBacktest == GenerateSignals \/ LoopBar \/ LoopEnd

SpecBacktest == InitBacktest /\ [][NextBacktest]_vars

----------------------------------------------------------------------------
(* Specification SpecStrategy: a caller hands bars to generate_signals of  *)
(* one strategy instance, call after call (at most MaxCalls calls of at    *)
(* most MaxCallBars bars each).  The bars have all the required columns,   *)
(* or lack one of them.  closes and volumes carry one entry per row of the *)
(* frame; the entries of a column that is missing are never read.          *)

CallColumns == {RequiredColumns, RequiredColumns \ {"open"}}

InitStrategy ==
    /\ pc = "idle"
    /\ params \in {DefaultParameters, ShortParameters, CalmParameters}
    /\ current_state = NoneState
    /\ calls = 0
    /\ closes = <<>>
    /\ volumes = <<>>
    /\ columns = RequiredColumns
    /\ signals = <<>>
    /\ regime = NoneState
    /\ anomaly_series = <<>>
    /\ position_series = <<>>
    /\ i = 1
    /\ current_signal = Zero
    /\ current_close = Zero
    /\ position = 0
    /\ entry_price = Zero
    /\ trades = <<>>
    /\ entry_bar = 0
    /\ entry_bars = <<>>
    /\ result = NoResult
    /\ RiskManagerConstructed
    /\ ServicesIdle

\* the caller builds the frame of its next call
ReceiveBars ==
    /\ pc \in {"idle", "returned"}
    /\ calls < MaxCalls
    /\ closes' \in SeriesOver(PriceGrid, MaxCallBars)
    /\ \E v \in Volumes : volumes' = [k \in 1..Len(closes') |-> v]
    /\ columns' \in CallColumns
    /\ signals' = <<>>
    /\ regime' = NoneState
    /\ anomaly_series' = <<>>
    /\ position_series' = <<>>
    /\ pc' = "called"
    /\ UNCHANGED <<i, current_signal, current_close, position, entry_price,
                   trades, entry_bar, entry_bars, result, params,
                   current_state, calls, riskVars, indVars,
                   barVars, apiVars>>

\* strategy.generate_signals(data), from the call to the return
CallGenerateSignals ==
    /\ pc = "called"
    /\ \E eps \in RoundedZero :
          \E g \in {generate_signals_guarded(columns, closes, volumes, params,
                                            current_state, eps)} :
             /\ signals' = g.signals
             /\ regime' = g.regime
             /\ current_state' = g.current_state
             /\ anomaly_series' = g.anomalies
             /\ position_series' = g.positions
    /\ calls' = calls + 1
    /\ pc' = "returned"
    /\ UNCHANGED <<closes, volumes, columns, i, current_signal, current_close,
                   position, entry_price, trades, entry_bar, entry_bars, result,
                   params, riskVars, indVars,
                   barVars, apiVars>>

NextStrategy == ReceiveBars \/ CallGenerateSignals

SpecStrategy == InitStrategy /\ [][NextStrategy]_vars

----------------------------------------------------------------------------
(* Specification SpecRisk: the methods of one RiskManager called in any    *)
(* order, on a manager that was just built or on one that has recorded     *)
(* WarmReturns trade returns at a portfolio value of 1.0.                  *)

CurrentValues == {One, <<9, 10>>, <<6, 5>>}

TradeResults == {<<>>, << <<1, 10>> >>, << <<-1, 10>> >>}

\* the k-th trade return of the manager in use: -0.05, -0.04, ...
WarmReturn(k) == Norm(k - 6, 100)

\* self.metrics after n calls update_metrics(1.0, WarmReturn(k))
RECURSIVE Warmed(_)
Warmed(n) ==
    IF n = 0 THEN reset_metrics
    ELSE update_metrics(Warmed(n - 1), One, <<WarmReturn(n)>>)

InitRisk ==
    /\ \/ /\ metrics = reset_metrics
          /\ last_op = "__init__"
          /\ last_value = <<>>
       \/ /\ metrics = Warmed(WarmReturns)
          /\ last_op = "update_metrics"
          /\ last_value = <<One>>
    /\ max_drawdown_limit \in {DefaultMaxDrawdownLimit, <<1, 5>>}
    /\ updates = 0
    /\ limits_ok = TRUE
    /\ risk_metrics = NoRiskMetrics
    /\ pc = "idle"
    /\ params = DefaultParameters
    /\ current_state = NoneState
    /\ calls = 0
    /\ closes = <<>>
    /\ volumes = <<>>
    /\ columns = RequiredColumns
    /\ signals = <<>>
    /\ regime = NoneState
    /\ anomaly_series = <<>>
    /\ position_series = <<>>
    /\ i = 1
    /\ current_signal = Zero
    /\ current_close = Zero
    /\ position = 0
    /\ entry_price = Zero
    /\ trades = <<>>
    /\ entry_bar = 0
    /\ entry_bars = <<>>
    /\ result = NoResult
    /\ ServicesIdle

backtestVars ==
    <<pc, closes, volumes, signals, i, current_signal, current_close,
      position, entry_price, trades, entry_bar, entry_bars, result,
      params, current_state, regime, stratVars>>

\* risk_manager.update_metrics(current_value, trade_result)
UpdateMetrics ==
    /\ updates < MaxUpdates
    /\ \E current_value \in CurrentValues, trade_result \in TradeResults :
          /\ metrics' = update_metrics(metrics, current_value, trade_result)
          /\ last_value' = <<current_value>>
    /\ updates' = updates + 1
    /\ last_op' = "update_metrics"
    /\ UNCHANGED <<max_drawdown_limit, limits_ok, risk_metrics, backtestVars, indVars,
                   barVars, apiVars>>

\* risk_manager.get_metrics()
GetMetrics ==
    /\ risk_metrics' = get_metrics(metrics)
    /\ last_op' = "get_metrics"
    /\ UNCHANGED <<metrics, max_drawdown_limit, last_value, updates, limits_ok,
                   backtestVars, indVars,
                   barVars, apiVars>>

\* risk_manager.check_risk_limits()
CheckRiskLimits ==
    /\ limits_ok' = check_risk_limits(metrics, max_drawdown_limit)
    /\ last_op' = "check_risk_limits"
    /\ UNCHANGED <<metrics, max_drawdown_limit, last_value, updates,
                   risk_metrics, backtestVars, indVars,
                   barVars, apiVars>>

\* risk_manager.reset_metrics()
ResetMetrics ==
    /\ metrics' = reset_metrics
    /\ last_value' = <<>>
    /\ last_op' = "reset_metrics"
    /\ UNCHANGED <<max_drawdown_limit, updates, limits_ok, risk_metrics,
                   backtestVars, indVars,
                   barVars, apiVars>>

NextRisk == UpdateMetrics \/ GetMetrics \/ CheckRiskLimits \/ ResetMetrics

SpecRisk == InitRisk /\ [][NextRisk]_vars

----------------------------------------------------------------------------
(* Specification SpecIndicators: the technical indicators called on every  *)
(* array of at most MaxSamples values with every window of at most         *)
(* MaxWindow, and detect_regime on arrays of up to MaxReturns returns, one  *)
(* call at a time.                                                         *)

\* the values of an array of returns, or of any series
SeriesValues == {F(-1), Zero, One}

\* what scipy.stats.skew and scipy.stats.kurtosis return
Moments == {F(-2), Zero, F(3), F(4), NaN}

\* what the regression of calculate_hurst_exponent returns
Slopes == {<<3, 10>>, <<2, 5>>, <<1, 2>>, <<3, 5>>, <<7, 10>>, NaN}

RegimeThresholds == {<<1, 2>>, <<3, 2>>}

\* the lengths of the arrays detect_regime is given
SampleLengths == (0..2) \cup ((HurstMinSamples - 1)..MaxReturns)

\* run_backtest is not running and no strategy of the backtest is in use
BacktestIdle ==
    /\ pc = "idle"
    /\ params = DefaultParameters
    /\ current_state = NoneState
    /\ calls = 0
    /\ closes = <<>>
    /\ volumes = <<>>
    /\ columns = RequiredColumns
    /\ signals = <<>>
    /\ regime = NoneState
    /\ anomaly_series = <<>>
    /\ position_series = <<>>
    /\ i = 1
    /\ current_signal = Zero
    /\ current_close = Zero
    /\ position = 0
    /\ entry_price = Zero
    /\ trades = <<>>
    /\ entry_bar = 0
    /\ entry_bars = <<>>
    /\ result = NoResult

InitIndicators ==
    /\ BacktestIdle
    /\ RiskManagerConstructed
    /\ ServicesIdle

CallCalculateVolatility ==
    /\ indicator = "none"
    /\ \E returns \in SeriesOver(SeriesValues, MaxSamples),
          window \in 1..MaxWindow :
          /\ indicator_args' = [returns |-> returns, window |-> window]
          /\ indicator_value' = calculate_volatility(returns, window)
    /\ indicator' = "calculate_volatility"
    /\ UNCHANGED <<backtestVars, riskVars, barVars, apiVars>>

CallDetectRegime ==
    /\ indicator = "none"
    /\ \E len \in SampleLengths, skew \in Moments, kurtosis \in Moments,
          slope \in Slopes, threshold \in RegimeThresholds :
          LET returns == Sample(len, skew, kurtosis, slope)
          IN /\ indicator_args' =
                    [returns |-> returns, threshold |-> threshold]
             /\ indicator_value' = detect_regime(returns, threshold)
    /\ indicator' = "detect_regime"
    /\ UNCHANGED <<backtestVars, riskVars, barVars, apiVars>>

CallCalculateZscore ==
    /\ indicator = "none"
    /\ \E series \in SeriesOver(SeriesValues, MaxSamples),
          window \in 1..MaxWindow :
          /\ indicator_args' = [series |-> series, window |-> window]
          /\ indicator_value' = calculate_zscore(series, window)
    /\ indicator' = "calculate_zscore"
    /\ UNCHANGED <<backtestVars, riskVars, barVars, apiVars>>

CallCalculateMomentum ==
    /\ indicator = "none"
    /\ \E prices \in SeriesOver(PriceGrid, MaxSamples),
          period \in 1..MaxWindow :
          /\ indicator_args' = [prices |-> prices, period |-> period]
          /\ indicator_value' = calculate_momentum(prices, period)
    /\ indicator' = "calculate_momentum"
    /\ UNCHANGED <<backtestVars, riskVars, barVars, apiVars>>

CallCalculateRsi ==
    /\ indicator = "none"
    /\ \E prices \in SeriesOver(PriceGrid, MaxSamples),
          period \in 1..MaxWindow :
          /\ indicator_args' = [prices |-> prices, period |-> period]
          /\ indicator_value' = calculate_rsi(prices, period)
    /\ indicator' = "calculate_rsi"
    /\ UNCHANGED <<backtestVars, riskVars, barVars, apiVars>>

\* the caller is done with the value
DropValue ==
    /\ indicator # "none"
    /\ indicator' = "none"
    /\ indicator_args' = <<>>
    /\ indicator_value' = Zero
    /\ UNCHANGED <<backtestVars, riskVars, barVars, apiVars>>

NextIndicators ==
    \/ CallCalculateVolatility
    \/ CallDetectRegime
    \/ CallCalculateZscore
    \/ CallCalculateMomentum
    \/ CallCalculateRsi
    \/ DropValue

SpecIndicators == InitIndicators /\ [][NextIndicators]_vars

----------------------------------------------------------------------------
(* Specification SpecLive: the live strategy of PythiaCore, built from a   *)
(* config without parameters or from one with short windows and low        *)
(* thresholds, is fed bars, asked for signals and reconfigured through     *)
(* configure_strategy of src/api/main.py, in any order.  A history that    *)
(* is shorter than the lookback period grows to MaxHistory bars.           *)

\* a config with short windows, a low entry threshold and a low confidence
\* level
LooseParameters ==
    [lookback_period |-> F(ShortLookbackPeriod),
     volatility_window |-> F(ShortVolatilityWindow),
     entry_threshold |-> <<1, 2>>,
     confidence_level |-> <<1, 10>>]

Symbol == "BTCUSDT"

\* what scipy.stats returns for the returns of the history
HistoryMoments == {F(-2), F(4)}

MarketData == {[symbol |-> Symbol, close |-> close] : close \in PriceGrid}

StrategyNames == {"statistical_pattern", "momentum"}

\* the JSON bodies posted to configure_strategy of src/api/main.py
CoreRequests ==
    {[name \in {"lookback_period"} |-> F(2)],
     [name \in {"lookback_period"} |-> F(252)],
     [name \in {"stop_loss"} |-> <<1, 20>>]}

NoRequest == [handler |-> "none"]

InitLive ==
    /\ BacktestIdle
    /\ RiskManagerConstructed
    /\ indicator = "none"
    /\ indicator_args = <<>>
    /\ indicator_value = Zero
    /\ parameters \in {EmptyDict, LooseParameters}
    /\ historical_data = <<>>
    /\ metadata = InitialMetadata
    /\ signal = NoSignal
    /\ request = NoRequest
    /\ response = 0
    /\ backtest_parameters = <<>>

\* strategy.update_state(market_data)
UpdateState ==
    /\ \/ Len(historical_data) < MaxHistory
       \/ Len(historical_data) >= Attribute(parameters, "lookback_period")[1]
    /\ \E market_data \in MarketData :
          LET updated == update_state(parameters, historical_data, metadata,
                                      market_data)
          IN /\ historical_data' = updated.historical_data
             /\ metadata' = updated.metadata
    /\ signal' = NoSignal
    /\ UNCHANGED <<parameters, backtestVars, riskVars, indVars, apiVars>>

\* strategy.generate_signal(market_data)
GenerateSignal ==
    /\ \E market_data \in MarketData, skew \in HistoryMoments,
          kurtosis \in HistoryMoments :
          LET returned == generate_signal(parameters, historical_data,
                                          metadata, market_data, skew,
                                          kurtosis)
          IN /\ signal' = returned.signal
             /\ metadata' = returned.metadata
    /\ UNCHANGED <<parameters, historical_data, backtestVars, riskVars,
                   indVars, apiVars>>

\* src/api/main.py configure_strategy(strategy_name, parameters)
ConfigureStrategyCore ==
    /\ \E strategy_name \in StrategyNames, other \in CoreRequests :
          LET updated == update_strategy_parameters(parameters, strategy_name,
                                                    other)
          IN /\ request' = [handler |-> "api.main.configure_strategy",
                            strategy |-> strategy_name, parameters |-> other]
             /\ IF updated = <<>>
                THEN /\ response' = 500
                     /\ UNCHANGED <<parameters, historical_data, metadata>>
                ELSE /\ response' = 200
                     /\ parameters' = updated[1].parameters
                     /\ historical_data' = updated[1].historical_data
                     /\ metadata' = updated[1].metadata
    /\ signal' = NoSignal
    /\ UNCHANGED <<backtest_parameters, backtestVars, riskVars, indVars>>

NextLive == UpdateState \/ GenerateSignal \/ ConfigureStrategyCore

SpecLive == InitLive /\ [][NextLive]_vars

----------------------------------------------------------------------------
(* Specification SpecConfig: requests to the two configuration handlers,   *)
(* in any order.  run_backtest, once called with the parameters of the     *)
(* request, builds the strategy from them and then either returns a result *)
(* or raises (the bars come from the exchange).                            *)

\* the parameter names of the requests to src/api.py
ApiNames ==
    {"lookback_period", "num_states", "confidence_level", "entry_threshold"}

\* the parameter values of the requests to src/api.py
ApiTexts == {"252", "10", "3", "0.9", "nan", "inf", "abc"}

ApiRequests ==
    {EmptyDict}
        \cup {[name \in {n} |-> text] : n \in ApiNames, text \in ApiTexts}

InitConfig ==
    /\ BacktestIdle
    /\ RiskManagerConstructed
    /\ ServicesIdle

\* src/api.py configure_strategy(request)
ConfigureStrategy ==
    /\ \E strategy_id \in StrategyNames, request_parameters \in ApiRequests :
          LET validated == validated_parameters(strategy_id,
                                                request_parameters)
          IN /\ request' = [handler |-> "api.configure_strategy",
                            strategy |-> strategy_id,
                            parameters |-> request_parameters]
             /\ IF validated = <<>>
                THEN /\ response' = 500
                     /\ UNCHANGED backtest_parameters
                ELSE /\ response' \in {200, 500}
                     /\ backtest_parameters' = validated
    /\ UNCHANGED <<backtestVars, riskVars, indVars, barVars>>

NextConfig == ConfigureStrategy \/ ConfigureStrategyCore

SpecConfig == InitConfig /\ [][NextConfig]_vars

----------------------------------------------------------------------------
(* Properties of the trade simulator and of the metrics (Spec) *)

Last(xs) == xs[Len(xs)]

\* the bar the loop read last (bar i - 1) opened the position that is open
JustOpened == i > 1 /\ position # 0 /\ entry_bar = i - 1

\* the bar the loop read last closed a position
JustClosed == i > 1 /\ trades # <<>> /\ Last(trades).timestamp = i - 1

\* the position was FLAT when the loop read its last bar
WasFlat == i > 1 /\ (JustOpened \/ (position = 0 /\ ~JustClosed))

\* sum of the pnl of the first n trades of a ledger, from the first trade on
RECURSIVE LedgerPnl(_, _)
LedgerPnl(ts, n) ==
    IF n = 0 THEN Zero
    ELSE FAdd(LedgerPnl(ts, n - 1), ts[n].pnl)

\* C1: the total_return of the returned BacktestResult is the sum of the pnl
\* of exactly the trades of the returned ledger, each of them CLOSED; the
\* ledger is the one the loop built, so a position still open after the last
\* bar has no record and adds nothing.
C1_TotalReturnIsLedgerSum ==
    pc = "done" =>
        /\ result.trades = trades
        /\ Len(result.trades) = Len(entry_bars)
        /\ \A k \in 1..Len(result.trades) : result.trades[k].status = "CLOSED"
        /\ result.total_return = LedgerPnl(result.trades, Len(result.trades))

\* a run that ended with two closed trades and a position still open
C1_Witness ==
    /\ pc = "done"
    /\ position # 0
    /\ Len(result.trades) = 2
    /\ FNe(result.total_return, Zero)

\* C2: the position is FLAT, LONG or SHORT (one scalar, so at most one open
\* position); every trade is entered before it is exited, entered strictly
\* after the exit bar of the trade before it, and the ledger is in increasing
\* exit-bar order; the position that is open was entered after the last exit.
C2_SinglePositionNoOverlap ==
    /\ position \in {-1, 0, 1}
    /\ (position # 0) <=> (entry_bar # 0)
    /\ \A k \in 1..Len(trades) : entry_bars[k] < trades[k].timestamp
    /\ \A k \in 1..(Len(trades) - 1) :
          /\ entry_bars[k + 1] > trades[k].timestamp
          /\ trades[k + 1].timestamp > trades[k].timestamp
    /\ (position # 0 /\ trades # <<>>) => entry_bar > Last(trades).timestamp

\* two trades in the ledger, the last one closed by a flip
C2_Witness ==
    /\ Len(trades) = 2
    /\ JustClosed
    /\ FEq(current_signal, F(1))
    /\ Last(trades).type = "SHORT"

\* C3: the position never goes from LONG to SHORT or back directly; the
\* ledger grows by exactly one record exactly when an open position is
\* closed, it is otherwise unchanged (at entry, while holding, at the end of
\* the data), and the returned ledger is the ledger of the closed cycles.
C3_AlternationAndLedgerCount ==
    [][/\ (position # 0 /\ position' # position) => position' = 0
       /\ IF position # 0 /\ position' = 0
          THEN Len(trades') = Len(trades) + 1
               /\ SubSeq(trades', 1, Len(trades)) = trades
          ELSE trades' = trades
       /\ pc' = "done" => (trades' = trades /\ result'.trades = trades
                           /\ position' = position)
      ]_vars

\* the data ended while the second cycle was still open
C3_Witness ==
    /\ pc = "done"
    /\ Len(result.trades) = 1
    /\ position # 0
    /\ entry_bar > Last(trades).timestamp

\* C4: on a bar read while FLAT the position becomes LONG exactly when the
\* signal is > 0 and SHORT exactly when it is < 0, with entry_price the close
\* of that bar; a NaN signal opens nothing.
C4_EntryOnlyOnSignedSignal ==
    (pc = "simulating" /\ WasFlat) =>
        /\ (position = 1) <=> FGt(current_signal, Zero)
        /\ (position = -1) <=> FLt(current_signal, Zero)
        /\ position # 0 => entry_price = current_close
        /\ IsNaN(current_signal) => position = 0

\* C5: on a bar read while a position is open the position is closed (one
\* record appended) exactly when the signal is 0 or the opposite of the
\* direction; a close leaves the position FLAT with entry_price 0, a flip
\* included, so nothing is reopened on that bar; otherwise the position and
\* its entry price are kept.
C5_ExitExactlyOnNeutralOrFlip ==
    [][(position # 0 /\ i' = i + 1) =>
          LET closed == Len(trades') = Len(trades) + 1
              due == FEq(current_signal', Zero)
                     \/ FEq(current_signal', F(-position))
          IN /\ closed <=> due
             /\ closed => (position' = 0 /\ entry_price' = Zero
                           /\ Last(trades').timestamp = i)
             /\ ~closed => (position' = position /\ entry_price' = entry_price
                            /\ trades' = trades)
      ]_vars

\* a LONG was closed by a -1 signal and the book is FLAT after that bar
C5_Witness ==
    /\ JustClosed
    /\ Last(trades).type = "LONG"
    /\ FEq(current_signal, F(-1))
    /\ position = 0
    /\ entry_price = Zero

\* direction x (exit_price - entry_price) / entry_price of a trade record
TradePnlOk(t) ==
    LET direction == IF t.type = "LONG" THEN 1 ELSE -1
    IN /\ FMul(t.pnl, t.entry_price)
             = FMul(F(direction), FSub(t.exit_price, t.entry_price))
       /\ (t.type = "LONG" /\ t.entry_price = F(100) /\ t.exit_price = F(110))
             => t.pnl = <<1, 10>>

\* C6: every trade of the ledger has pnl = direction x (exit - entry) / entry
\* with direction +1 for LONG and -1 for SHORT; its entry_price is the close
\* of the bar that opened the position, kept while the position is held, and
\* its exit_price is the close of the bar that closed it; a LONG from 100 to
\* 110 has pnl 1/10.
C6_TradePnl ==
    [][/\ (position = 0 /\ position' # 0) => entry_price' = current_close'
       /\ (position # 0 /\ position' = position) => entry_price' = entry_price
       /\ Len(trades') > Len(trades) =>
             /\ Last(trades').entry_price = entry_price
             /\ Last(trades').exit_price = current_close'
             /\ Last(trades').type = (IF position > 0 THEN "LONG" ELSE "SHORT")
       /\ \A k \in 1..Len(trades') : TradePnlOk(trades'[k])
      ]_vars

\* the ledger holds a LONG from 100 to 110 and a losing SHORT
C6_Witness ==
    /\ \E k \in 1..Len(trades) :
          /\ trades[k].type = "LONG"
          /\ trades[k].entry_price = F(100)
          /\ trades[k].exit_price = F(110)
          /\ trades[k].pnl = <<1, 10>>
    /\ \E k \in 1..Len(trades) :
          trades[k].type = "SHORT" /\ FLt(trades[k].pnl, Zero)

\* gross profit and gross loss of a ledger, from the first trade on
RECURSIVE GrossProfit(_, _)
GrossProfit(ts, n) ==
    IF n = 0 THEN Zero
    ELSE IF FGt(ts[n].pnl, Zero) THEN FAdd(GrossProfit(ts, n - 1), ts[n].pnl)
    ELSE GrossProfit(ts, n - 1)

RECURSIVE GrossLoss(_, _)
GrossLoss(ts, n) ==
    IF n = 0 THEN Zero
    ELSE IF FLt(ts[n].pnl, Zero) THEN FAdd(GrossLoss(ts, n - 1), ts[n].pnl)
    ELSE GrossLoss(ts, n - 1)

\* C9: a ledger in which every trade has pnl >= 0 (the empty ledger
\* included) is reported with profit_factor = +inf, every other ledger with
\* gross profit / |gross loss|.
C9_ProfitFactor ==
    pc = "done" =>
        LET ts == result.trades
        IN IF \A k \in 1..Len(ts) : FGe(ts[k].pnl, Zero)
           THEN result.profit_factor = Inf
           ELSE result.profit_factor
                    = FDiv(GrossProfit(ts, Len(ts)),
                           FAbs(GrossLoss(ts, Len(ts))))

\* C10: the reported max_drawdown lies in [-1, 0].
C10_MaxDrawdownRange ==
    pc = "done" =>
        /\ FLe(F(-1), result.max_drawdown)
        /\ FLe(result.max_drawdown, Zero)

\* C27: a bar whose signal equals the direction of the open position, and a
\* bar with signal 0 read while FLAT, leave position, entry_price and the
\* ledger as they were.
C27_HoldChangesNothing ==
    [][(/\ i' = i + 1
        /\ \/ (position # 0 /\ FEq(current_signal', F(position)))
           \/ (position = 0 /\ FEq(current_signal', Zero)))
          => UNCHANGED <<position, entry_price, trades>>
      ]_vars

\* a position entered at 100 was held through a later bar with the signal
\* of its direction and another close
C27_Witness ==
    /\ position # 0
    /\ ~JustOpened
    /\ FEq(current_signal, F(position))
    /\ entry_price = F(100)
    /\ current_close = F(250)

\* C11: the reported sharpe_ratio is a finite number: 0 for fewer than 2
\* trades, 0 when the trade returns have zero standard deviation, and
\* sqrt(252) x mean / std otherwise (as a signed square: 252 x mean x |mean|
\* / variance).
C11_SharpeRatioFinite ==
    pc = "done" =>
        LET returns == ReturnsOf(result.trades)
        IN /\ IsFinite(result.sharpe_ratio)
           /\ IF Len(returns) < 2 THEN result.sharpe_ratio = Zero
              ELSE IF SampleVar(returns) = Zero
              THEN result.sharpe_ratio = Zero
              ELSE result.sharpe_ratio
                       = FMul(F(252), FDiv(SignedSquare(Mean(returns)),
                                           SampleVar(returns)))


----------------------------------------------------------------------------
(* Properties of run_backtest from the fetched bars on (SpecBacktest) *)

\* C7: on fewer than lookback_period bars identify_market_regime returns the
\* zero state and every entry of the series generate_signals returns is 0.
C7_ShortSeriesIsNeutral ==
    (pc # "fetched" /\ Len(closes) < params.lookback_period) =>
        /\ regime = ZeroState
        /\ \A k \in 1..Len(signals) : signals[k] = Zero

\* C8: FlatBars (250) bars of identical closes with the default parameters
\* give an all-zero signal series, an empty ledger, total_return = 0,
\* win_rate = 0 and profit_factor = +inf.
C8_FlatSeriesResult ==
    (/\ pc = "done"
     /\ Len(closes) = FlatBars
     /\ \A k \in 1..Len(closes) : closes[k] = closes[1]
     /\ params = DefaultParameters) =>
        /\ \A k \in 1..Len(signals) : signals[k] = Zero
        /\ result.trades = <<>>
        /\ result.total_return = Zero
        /\ result.win_rate = Zero
        /\ result.profit_factor = Inf

\* C13: on an empty bar sequence neither generate_signals returns (the run
\* never gets to the simulation loop) nor run_backtest returns a
\* BacktestResult.
C13_EmptyBarsIsHardError ==
    closes = <<>> => (pc = "fetched" /\ result = NoResult)

\* the volume filter: the bars whose volume is < 0.5 x the mean of the last
\* 20 volumes
LowVolume ==
    {k \in 20..Len(volumes) :
        FLt(volumes[k], FMul(Mean(SubSeq(volumes, k - 19, k)), <<1, 2>>))}

\* the 20-bar variance of the returns at every bar, NaN before bar 20
Volatility20 ==
    LET returns == LogReturns(closes)
    IN [k \in 1..Len(closes) |->
           IF k < 20 THEN NaN ELSE SampleVar(SubSeq(returns, k - 19, k))]

\* the volatility filter: the bars whose 20-bar volatility is below the 10th
\* percentile of the volatility series.  For 2 to 11 values the percentile
\* lies above the smallest value and not above the second smallest, so the
\* bars below it are those of a smallest value that no other bar shares;
\* when all the values are the same no bar is below it.
LowVolatility ==
    LET volatility == Volatility20
        defined == {l \in 20..Len(closes) : ~IsNaN(volatility[l])}
    IN {k \in defined :
           /\ Cardinality(defined) \in 2..11
           /\ \A l \in defined \ {k} : FLt(volatility[k], volatility[l])}

\* C21: every entry of the series generate_signals returned is -1, 0 or 1,
\* and it is 0 at every bar that the volume filter or the volatility filter
\* rejects.
C21_TernaryFilteredSignals ==
    (pc = "simulating" /\ i = 1) =>
        /\ \A k \in 1..Len(signals) : signals[k] \in {F(-1), Zero, One}
        /\ \A k \in LowVolume \cup LowVolatility : signals[k] = Zero

----------------------------------------------------------------------------
(* Properties of the RiskManager (SpecRisk) *)

\* the drawdown of the latest update: (peak - current_value) / peak, and 0
\* when nothing was updated since the construction or the last reset
LatestDrawdown ==
    IF last_value = <<>> THEN Zero
    ELSE FDiv(FSub(metrics.peak_value, last_value[1]), metrics.peak_value)

\* C15: a call of check_risk_limits returns False exactly when the
\* current_drawdown of the latest update is > max_drawdown_limit, whatever
\* the historical max_drawdown, and changes no metric.
C15_RiskLimitGate ==
    [][last_op' = "check_risk_limits" =>
          /\ metrics.current_drawdown = LatestDrawdown
          /\ limits_ok' = ~FGt(LatestDrawdown, max_drawdown_limit)
          /\ metrics' = metrics
          /\ max_drawdown_limit' = max_drawdown_limit
      ]_vars

\* the gate is clear again after a drawdown beyond the limit was recovered
C15_Witness ==
    /\ last_op = "check_risk_limits"
    /\ limits_ok
    /\ FGt(metrics.max_drawdown, max_drawdown_limit)
    /\ FLe(metrics.current_drawdown, max_drawdown_limit)
    /\ last_value # <<>>

\* xs with x inserted before the first entry that is larger
RECURSIVE Inserted(_, _)
Inserted(xs, x) ==
    IF xs = <<>> THEN <<x>>
    ELSE IF FLt(x, xs[1]) THEN <<x>> \o xs
    ELSE <<xs[1]>> \o Inserted(Tail(xs), x)

RECURSIVE Sorted(_)
Sorted(xs) ==
    IF xs = <<>> THEN <<>>
    ELSE Inserted(Sorted(Tail(xs)), xs[1])

\* the 5th percentile of at least two values: between the entries of the
\* sorted values around position 0.05 * (n - 1), counted from 0
FifthPercentile(xs) ==
    LET sorted == Sorted(xs)
        below == (5 * (Len(xs) - 1)) \div 100
        weight == Norm((5 * (Len(xs) - 1)) % 100, 100)
    IN FAdd(FMul(FSub(One, weight), sorted[below + 1]),
            FMul(weight, sorted[below + 2]))

\* C16: get_metrics reports var_95 = 0 while fewer than 20 trade returns
\* are recorded since the last reset, and their 5th percentile from 20 on.
C16_Var95 ==
    last_op = "get_metrics" =>
        risk_metrics.var_95
            = IF Len(metrics.returns) < 20 THEN Zero
              ELSE FifthPercentile(metrics.returns)

\* a report over 20 or more recorded returns with a loss at the 5th
\* percentile
C16_Witness ==
    /\ last_op = "get_metrics"
    /\ Len(metrics.returns) >= 20
    /\ FLt(risk_metrics.var_95, Zero)

\* what holds of the drawdown metrics in every state
DrawdownMetricsOk ==
    /\ FGe(metrics.peak_value, One)
    /\ last_value # <<>> => FGe(metrics.peak_value, last_value[1])
    /\ metrics.current_drawdown = LatestDrawdown
    /\ FGe(metrics.current_drawdown, Zero)
    /\ FGe(metrics.max_drawdown, metrics.current_drawdown)

\* what an update_metrics call does to them
DrawdownMetricsStep ==
    updates' = updates + 1 =>
        /\ metrics'.peak_value
               = (IF FGt(last_value'[1], metrics.peak_value)
                  THEN last_value'[1] ELSE metrics.peak_value)
        /\ FGe(metrics'.peak_value, metrics.peak_value)
        /\ FGe(metrics'.max_drawdown, metrics.max_drawdown)

\* C24: since the last reset peak_value is the largest of 1.0 and the
\* portfolio values passed to update_metrics (it starts at 1.0 and every
\* update makes it the larger of itself and the new value), current_drawdown
\* is (peak_value - latest value) / peak_value and is >= 0, and max_drawdown
\* never decreases and is >= current_drawdown.
C24_DrawdownTracking ==
    []DrawdownMetricsOk /\ [][DrawdownMetricsStep]_vars

\* the portfolio is below a peak above 1.0, less than it once was
C24_Witness ==
    /\ last_op = "update_metrics"
    /\ FGt(metrics.peak_value, One)
    /\ FGt(metrics.current_drawdown, Zero)
    /\ FGt(metrics.max_drawdown, metrics.current_drawdown)

\* the ledger of closed trades whose pnl are the returns recorded
LedgerOf(returns) ==
    [k \in 1..Len(returns) |->
        [timestamp |-> k, type |-> "LONG", entry_price |-> One,
         exit_price |-> FAdd(One, returns[k]), pnl |-> returns[k],
         status |-> "CLOSED"]]

\* C30: a manager that was reset (or just built) and then fed trade returns
\* through update_metrics reports the win_rate and the profit_factor that
\* calculate_metrics reports for the ledger of the same returns, the empty
\* one included.
C30_SameWinRateAndProfitFactor ==
    (last_op = "get_metrics" /\ Len(metrics.returns) <= MaxUpdates) =>
        /\ risk_metrics.win_rate
               = calculate_metrics(LedgerOf(metrics.returns)).win_rate
        /\ risk_metrics.profit_factor
               = calculate_metrics(LedgerOf(metrics.returns)).profit_factor

----------------------------------------------------------------------------
(* Properties of generate_signals and its helpers (SpecStrategy) *)

\* C12: generate_signals never returns a series for bars that lack one of
\* the required columns open, high, low, close, volume.
C12_MissingColumnIsHardError ==
    pc = "returned" => RequiredColumns \subseteq columns

\* the outcome of the call on a fresh instance of the same parameters
FreshCall(eps) ==
    generate_signals_guarded(columns, closes, volumes, params, NoneState, eps)

\* C14: the series a call returns is the one a fresh instance returns for
\* the same bars, whatever the instance was given before; the state the
\* position sizer used (self.current_state) is the regime derived from the
\* bars of this call, or no state when these bars derive none.
C14_GenerateSignalsDeterministic ==
    pc = "returned" =>
        \E eps \in RoundedZero :
            /\ signals = FreshCall(eps).signals
            /\ position_series = FreshCall(eps).positions
            /\ current_state = FreshCall(eps).current_state

\* the bars of the call were valid and generate_signals has returned
Returned == pc = "returned" /\ RequiredColumns \subseteq columns

\* the trailing window of returns identify_market_regime works on
Window ==
    SubSeq(LogReturns(closes), Len(closes) - params.lookback_period + 1,
           Len(closes))

\* the window less its mean
Deviations ==
    LET w == Window
        m == Mean(w)
    IN [k \in 1..Len(w) |-> FSub(w[k], m)]

\* the standardized window (as signed squares)
Standardized ==
    LET devs == Deviations
        v == PopVar(Window)
    IN [k \in 1..Len(devs) |-> FDiv(SignedSquare(devs[k]), v)]

\* bucket j: the indices whose standardized value is <= the threshold at
\* quantile j / num_states
Bucket(j) ==
    LET standardized == Standardized
    IN {k \in 1..Len(standardized) :
           FLe(standardized[k], NormPpfSq(j, params.num_states))}

BucketProbability(j) == FDiv(F(Cardinality(Bucket(j))), F(Len(Window)))

\* the regime returned is the state of bucket j
RegimeIsBucket(j) ==
    /\ Bucket(j) # {}
    /\ regime.probability = BucketProbability(j)
    /\ \E eps \in RoundedZero :
          regime = BucketState(Deviations, PopVar(Window),
                               SelectSeq([k \in 1..Len(Window) |-> k],
                                         LAMBDA k : k \in Bucket(j)),
                               eps)

\* bucket j has the largest probability, and no non-empty bucket of lower
\* index has it
BucketWins(j) ==
    /\ \A l \in 1..params.num_states :
          FLe(BucketProbability(l), BucketProbability(j))
    /\ \A l \in 1..(j - 1) :
          Bucket(l) # {} => FLt(BucketProbability(l), BucketProbability(j))

\* the buckets are cumulative
BucketsCumulative ==
    \A j \in 1..params.num_states : \A l \in 1..j : Bucket(l) \subseteq Bucket(j)

\* C17 as stated: given at least lookback_period returns the buckets are
\* cumulative and the regime returned is a non-empty bucket of maximal
\* probability (size / window size), the lowest-index one among ties.
C17_AsStated ==
    (Returned /\ Len(closes) >= params.lookback_period) =>
        /\ BucketsCumulative
        /\ \E j \in 1..params.num_states : BucketWins(j) /\ RegimeIsBucket(j)

\* C17, amended: the same when some bucket is not empty; when every bucket
\* is empty (a constant window: the standardized values are 0/0) the zero
\* state is returned.
C17_MostProbableBucket ==
    (Returned /\ Len(closes) >= params.lookback_period) =>
        /\ BucketsCumulative
        /\ IF \E j \in 1..params.num_states : Bucket(j) # {}
           THEN \E j \in 1..params.num_states :
                   BucketWins(j) /\ RegimeIsBucket(j)
           ELSE regime = ZeroState

\* three non-empty buckets of three different sizes, the largest returned
C17_Witness ==
    /\ Returned
    /\ Len(closes) >= params.lookback_period
    /\ Bucket(1) # {}
    /\ Cardinality(Bucket(1)) < Cardinality(Bucket(2))
    /\ Cardinality(Bucket(2)) < Cardinality(Bucket(3))
    /\ regime.probability = One

\* the z-score of bar k (index k), as a signed square, over the window of
\* lookback_period returns that ends at k
ZScore(k) ==
    LET w == SubSeq(LogReturns(closes), k - params.lookback_period + 1, k)
    IN FDiv(SignedSquare(FSub(w[Len(w)], Mean(w))), SampleVar(w))

\* C18: detect_anomalies returns one flag per bar; the flags of the bars
\* before bar lookback_period - 1 are false, all of them when there are fewer
\* than lookback_period bars; the flag of any other bar is true exactly when
\* |z-score| > regime_threshold.
C18_AnomalyFlags ==
    Returned =>
        /\ Len(anomaly_series) = Len(closes)
        /\ \A k \in 1..Len(closes) :
              IF k < params.lookback_period
              THEN anomaly_series[k] = FALSE
              ELSE anomaly_series[k]
                      = FGt(FAbs(ZScore(k)),
                            SignedSquare(params.regime_threshold))

\* a bar with a negative z-score beyond the threshold is flagged
C18_Witness ==
    /\ Returned
    /\ Len(closes) >= params.lookback_period
    /\ \E k \in params.lookback_period..Len(closes) :
          /\ anomaly_series[k]
          /\ FLt(ZScore(k), Zero)

\* C19: every position size returned is a number in [-1, 1].
C19_PositionSizeRange ==
    Returned =>
        \A k \in 1..Len(position_series) :
            /\ FLe(F(-1), position_series[k])
            /\ FLe(position_series[k], One)

\* the closes of the call are strictly increasing
StrictlyIncreasing ==
    \A k \in 1..(Len(closes) - 1) : FLt(closes[k], closes[k + 1])

\* C20: when no bar is flagged, every position size is sign(return) x kelly
\* x 0.5 (as a signed square), kelly being 0.5 without a regime state and
\* win_prob - (1 - win_prob) / win_loss_ratio with one; on strictly
\* increasing closes every size after the first is positive and they are
\* all the same.
C20_HalfKellySignFollowing ==
    (Returned /\ \A k \in 1..Len(closes) : ~anomaly_series[k]) =>
        /\ \A k \in 1..Len(closes) :
              position_series[k]
                  = SignedSquare(FMul(FMul(FSign(LogReturns(closes)[k]),
                                           KellyFraction(current_state)),
                                      <<1, 2>>))
        /\ StrictlyIncreasing =>
              \A k \in 2..Len(closes) :
                  /\ FGt(position_series[k], Zero)
                  /\ position_series[k] = position_series[2]

\* C26: a call whose trailing window of lookback_period returns has zero
\* standard deviation gets the zero state from identify_market_regime, no
\* field of it NaN, and leaves self.current_state as it was.
C26_ZeroVarianceWindow ==
    [][(/\ pc = "called"
        /\ pc' = "returned"
        /\ RequiredColumns \subseteq columns
        /\ Len(closes) >= params.lookback_period
        /\ PopVar(Window) = Zero)
          => /\ regime' = ZeroState
             /\ ~IsNaN(regime'.mean_return)
             /\ ~IsNaN(regime'.volatility)
             /\ ~IsNaN(regime'.probability)
             /\ current_state' = current_state
      ]_vars

\* a call on a constant window returned while the instance remembers the
\* state of an earlier call
C26_Witness ==
    /\ Returned
    /\ Len(closes) >= params.lookback_period
    /\ PopVar(Window) = Zero
    /\ regime = ZeroState
    /\ current_state.kind = "MarkovState"

\* C28: on at least lookback_period returns of non-zero variance the bucket
\* probabilities do not decrease with the index, the last bucket is the
\* whole window, the state returned (and remembered) has probability 1, and
\* the Kelly term 1 - win_prob is 0.
C28_LastBucketIsWholeWindow ==
    (/\ Returned
     /\ Len(closes) >= params.lookback_period
     /\ FNe(PopVar(Window), Zero)) =>
        /\ \A j \in 1..params.num_states : \A l \in 1..j :
              FLe(BucketProbability(l), BucketProbability(j))
        /\ Bucket(params.num_states) = 1..params.lookback_period
        /\ regime.probability = One
        /\ current_state = regime
        /\ FSub(One, current_state.probability) = Zero

\* the first bucket holds one return only and the state returned has
\* probability 1
C28_Witness ==
    /\ Returned
    /\ Len(closes) >= params.lookback_period
    /\ FNe(PopVar(Window), Zero)
    /\ Cardinality(Bucket(1)) = 1
    /\ current_state.probability = One
    /\ calls = 1

----------------------------------------------------------------------------
(* Properties of the technical indicators (SpecIndicators) *)

\* C22: detect_regime returns 'trending' exactly when the Hurst estimate is
\* above 0.6 and |skew| is above the threshold, otherwise 'mean_reverting'
\* exactly when the Hurst estimate is below 0.4 and the excess kurtosis is
\* above 3, otherwise 'neutral'; and it returns 'neutral' for every array of
\* fewer than 100 samples.
C22_RegimeLabels ==
    indicator = "detect_regime" =>
        LET returns == indicator_args.returns
            hurst == calculate_hurst_exponent(returns)
            trending ==
                /\ FGt(hurst, <<3, 5>>)
                /\ FGt(FAbs(returns.skew), indicator_args.threshold)
            reverting ==
                /\ FLt(hurst, <<2, 5>>)
                /\ FGt(returns.kurtosis, F(3))
        IN /\ indicator_value = "trending" <=> trending
           /\ indicator_value = "mean_reverting" <=> (~trending /\ reverting)
           /\ indicator_value = "neutral" <=> (~trending /\ ~reverting)
           /\ returns.len < HurstMinSamples => indicator_value = "neutral"

\* detect_regime has returned 'neutral' for an array of fewer than 100
\* samples whose slope and skew are those of a trending array
C22_Witness ==
    /\ indicator = "detect_regime"
    /\ indicator_args.returns.len >= 2
    /\ indicator_args.returns.len < HurstMinSamples
    /\ FGt(indicator_args.returns.slope, <<3, 5>>)
    /\ FGt(FAbs(indicator_args.returns.skew), indicator_args.threshold)
    /\ indicator_value = "neutral"

\* the window of a calculate_zscore call has a standard deviation of zero
ZeroDeviationWindow ==
    /\ Len(indicator_args.series) >= indicator_args.window
    /\ FEq(PopVar(LastN(indicator_args.series, indicator_args.window)), Zero)

\* the average loss over the period of a calculate_rsi call is zero
ZeroAverageLoss ==
    /\ Len(indicator_args.prices) >= indicator_args.period + 1
    /\ FEq(Mean(LastN(Losses(Diff(indicator_args.prices)),
                      indicator_args.period)), Zero)

\* C23: calculate_volatility returns 0 with fewer than window samples,
\* calculate_zscore returns 0 with fewer than window samples or a window
\* standard deviation of zero, calculate_rsi returns 50 with fewer than
\* period + 1 prices and 100 when the average loss over the period is 0.
C23_IndicatorDefaults ==
    /\ (/\ indicator = "calculate_volatility"
        /\ Len(indicator_args.returns) < indicator_args.window)
           => indicator_value = Zero
    /\ (/\ indicator = "calculate_zscore"
        /\ \/ Len(indicator_args.series) < indicator_args.window
           \/ ZeroDeviationWindow)
           => indicator_value = Zero
    /\ (/\ indicator = "calculate_rsi"
        /\ Len(indicator_args.prices) < indicator_args.period + 1)
           => indicator_value = F(50)
    /\ (indicator = "calculate_rsi" /\ ZeroAverageLoss)
           => indicator_value = F(100)

\* calculate_zscore has returned 0 for a window of two or more equal values
C23_Witness ==
    /\ indicator = "calculate_zscore"
    /\ indicator_args.window >= 2
    /\ ZeroDeviationWindow
    /\ indicator_value = Zero

----------------------------------------------------------------------------
(* Properties of the live strategy (SpecLive) *)

\* C29: every Signal generate_signal returns has direction 'neutral' and
\* strength 0.0, whatever bars update_state was given before and whatever
\* the parameters are.
C29_AlwaysNeutral ==
    signal.direction # "none" =>
        /\ signal.direction = "neutral"
        /\ signal.strength = Zero

\* generate_signal has returned 'neutral' for a full history whose z-score
\* is below minus the entry threshold, with a confidence above the
\* confidence level
C29_Witness ==
    /\ signal.direction = "neutral"
    /\ Len(historical_data) >= Attribute(parameters, "lookback_period")[1]
    /\ FLt(signal.metadata.z_score,
           FNeg(SignedSquare(Attribute(parameters, "entry_threshold"))))
    /\ FGt(signal.metadata.confidence,
           Attribute(parameters, "confidence_level"))

----------------------------------------------------------------------------
(* Properties of the configuration handlers (SpecConfig) *)

\* every parameter of the dict is a documented one, within its bounds
WithinBounds(dict) ==
    \A name \in DOMAIN dict :
        /\ name \in DOMAIN ParameterBounds
        /\ FGe(dict[name], ParameterBounds[name].min)
        /\ FLe(dict[name], ParameterBounds[name].max)

\* C25: every parameter that reaches a strategy object is a documented one
\* within its min/max bounds: the parameters run_backtest builds a strategy
\* from, and the parameters a successful request to configure_strategy of
\* src/api/main.py hands to set_parameters.
C25_ParametersWithinBounds ==
    /\ \A k \in 1..Len(backtest_parameters) :
           WithinBounds(backtest_parameters[k])
    /\ (request.handler = "api.main.configure_strategy" /\ response = 200)
           => WithinBounds(request.parameters)

====
